---- MODULE Spec2Model ----
(***************************************************************************)
(* Hotel front-office PMS: the store (rooms, guests, reservations,         *)
(* bookings, folio_charges, payments, guest_documents, tax_config) and the *)
(* page handlers of two front-office terminals that read and write it.     *)
(*                                                                         *)
(* Money: amounts are in paise (decimal(10,2) columns), tax rates in whole *)
(* percent, computed totals in hundredths of a paise, so that              *)
(* subtotal * rate / 100 is exact and any rounding would be visible.       *)
(* Dates are day numbers; an instant is a day number times TicksPerDay     *)
(* plus the position inside the day.                                       *)
(***************************************************************************)
EXTENDS Integers, Sequences, FiniteSets, TLC

\* ---------------------------------------------------------------- bounds
MaxDay == 3
MaxBookings == 2
MaxReservations == 1
MaxCharges == 3
MaxPayments == 2
MaxDocs == 4
MaxFailures == 1
MaxAuditRuns == 2
TicksPerDay == 2

\* ------------------------------------------------------- fixed universes
Terminals == {1, 2}
Rooms == {101, 103}
Mobiles == {"m1", "m2"}

RoomStatuses == {"vacant_clean", "vacant_dirty", "occupied", "out_of_order"}
ChargeTypes == {"room_rent", "extra_bed", "early_checkin", "late_checkout", "miscellaneous"}
DocumentTypes == {"invoice", "grc"}
Pages == {"dashboard", "tapechart", "reservations", "checkin", "guests", "inhouse", "reports",
          "settings", "nightaudit", "ratecalendar"}

RoomType(r) == IF r = 101 THEN "Standard" ELSE "Deluxe"
BaseRate(rt) == IF rt = "Standard" THEN 150000 ELSE 250000
DefaultTaxPercentage == 6
InvoicePrefix == "INV"
GrcPrefix == "GRC"

\* inputs an operator can type into the forms
ManualAmounts == {12345, -5000}
ManualChargeTypes == {"room_rent", "miscellaneous"}
PaymentAmounts == {0, 100000}
TaxPercentages == {0, 6, 9}

\* ------------------------------------------------------------- helpers
RECURSIVE SumAmounts(_)
SumAmounts(s) == IF s = <<>> THEN 0 ELSE Head(s).amount + SumAmounts(Tail(s))

\* Math.ceil(a / b) for b > 0
Ceil(a, b) == -((-a) \div b)

DateInstant(d) == d * TicksPerDay
DateOf(instant) == instant \div TicksPerDay

RemoveAt(s, i) == IF i \in 1..Len(s) THEN SubSeq(s, 1, i - 1) \o SubSeq(s, i + 1, Len(s)) ELSE s

\* ------------------------------------------------- totals (pure functions)
\* totals whose tax amounts are rounded to whole paise when they are computed
calculateFolioTotalRounded(folioCharges, pays, tx) ==
  LET totalCharges == SumAmounts(folioCharges)
      cgstAmount == ((totalCharges * tx.cgst + 50) \div 100) * 100
      sgstAmount == ((totalCharges * tx.sgst + 50) \div 100) * 100
      grandTotal == totalCharges * 100 + cgstAmount + sgstAmount
  IN [subtotal |-> totalCharges * 100, cgstAmount |-> cgstAmount, sgstAmount |-> sgstAmount,
      grandTotal |-> grandTotal, totalPayments |-> SumAmounts(pays) * 100,
      balance |-> grandTotal - SumAmounts(pays) * 100]

\* InHouse.calculateFolioTotal over the page state folioCharges, payments, taxes
calculateFolioTotal(folioCharges, pays, tx) ==
  LET totalCharges == SumAmounts(folioCharges)
      totalPayments == SumAmounts(pays)
      subtotal == totalCharges * 100
      cgstAmount == (totalCharges * 100 * tx.cgst) \div 100
      sgstAmount == (totalCharges * 100 * tx.sgst) \div 100
      grandTotal == subtotal + cgstAmount + sgstAmount
      balance == grandTotal - totalPayments * 100
  IN [subtotal |-> subtotal, cgstAmount |-> cgstAmount, sgstAmount |-> sgstAmount,
      grandTotal |-> grandTotal, totalPayments |-> totalPayments * 100, balance |-> balance]

\* the totals block of documentArchiveService.archiveInvoice
InvoiceTotals(folioCharges, pays, tx) ==
  LET sum == SumAmounts(folioCharges)
      subtotal == sum * 100
      cgstAmount == (sum * 100 * tx.cgst) \div 100
      sgstAmount == (sum * 100 * tx.sgst) \div 100
      grandTotal == subtotal + cgstAmount + sgstAmount
      totalPaid == SumAmounts(pays) * 100
  IN [subtotal |-> subtotal, cgst_amount |-> cgstAmount, sgst_amount |-> sgstAmount,
      grand_total |-> grandTotal, total_paid |-> totalPaid, balance |-> grandTotal - totalPaid]

\* components/Invoice: the lists and totals the Invoice component shows for its props
Invoice(folioCharges, pays, tx) ==
  LET sum == SumAmounts(folioCharges)
      subtotal == sum * 100
      cgstAmount == (sum * 100 * tx.cgst) \div 100
      sgstAmount == (sum * 100 * tx.sgst) \div 100
      grandTotal == subtotal + cgstAmount + sgstAmount
      totalPaid == SumAmounts(pays) * 100
  IN [charges |-> folioCharges, payments |-> pays, subtotal |-> subtotal,
      cgstAmount |-> cgstAmount, sgstAmount |-> sgstAmount, grandTotal |-> grandTotal,
      totalPaid |-> totalPaid, balance |-> grandTotal - totalPaid]

\* Number.prototype.toFixed(2) of a value held in hundredths of a paise: paise, rounded
ToFixed2(v) == IF v >= 0 THEN (v + 50) \div 100 ELSE -((-v + 50) \div 100)

\* ------------------------------------------------------------------ state
VARIABLES
  rooms,              \* store: rooms.status by room
  guests,             \* store: guests rows (id = index)
  reservations,       \* store: reservations rows (id = index)
  bookings,           \* store: bookings rows (id = index)
  folio_charges,      \* store: folio_charges rows, in insertion order
  payments,           \* store: payments rows, in insertion order
  guest_documents,    \* store: guest_documents rows, in insertion order
  tax_config,         \* store: tax_config rows by tax_name
  today,              \* the current calendar day
  failures,           \* store requests that have failed so far
  page,               \* per terminal: the page App.renderPage shows
  modal,              \* per terminal: the open modal of the page
  pc,                 \* per terminal: position inside a running handler
  selectedGuest,      \* Guests page: selectedGuest (guest id, 0 = null)
  selectedReservation,\* Guests / CheckIn page: selectedReservation (id, 0 = null)
  availableRooms,     \* Guests / CheckIn / InHouse page: availableRooms
  selectedBooking,    \* InHouse page: selectedBooking (row as loaded)
  taxes,              \* InHouse page: taxes
  folioCharges,       \* InHouse page: folioCharges
  pagePayments,       \* InHouse page: payments
  checkoutPaymentData,\* InHouse page: checkoutPaymentData (amount, -1 = null)
  loc,                \* InHouse.confirmCheckout: finalCharges, finalPayments, bookingData
                      \* and the history of the run
  inHouseBookings,    \* NightAudit page: inHouseBookings
  auditComplete,      \* NightAudit page: auditComplete
  auditLog            \* history: what each night-audit run of today inserted and reported

storeVars == <<rooms, guests, reservations, bookings, folio_charges, payments,
               guest_documents, tax_config>>
uiVars == <<page, modal, pc, selectedGuest, selectedReservation, availableRooms,
            selectedBooking, taxes, folioCharges, pagePayments, checkoutPaymentData, loc,
            inHouseBookings, auditComplete>>
vars == <<storeVars, today, failures, uiVars, auditLog>>

NoBooking == [id |-> 0, room_id |-> 0, expected_check_out_date |-> 0, guests |-> [id_proof_number |-> ""]]
\* existingGuest, mobile: the guest a handler's lookup returned and the mobile it was given;
\* auditList, chargesPosted, inserted: the rest of runNightAudit's loop and its counters;
\* preview: the invoice the preview showed at the click on Complete Checkout (history);
\* failed: the requests of the running confirmCheckout that returned an error (history);
\* ratesAtConfirm: the active tax_config rates at the click on Complete Checkout (history)
NoLoc == [finalCharges |-> <<>>, finalPayments |-> <<>>, guest_id |-> 0, failed |-> {},
          ratesAtConfirm |-> [cgst |-> 0, sgst |-> 0],
          existingGuest |-> 0, mobile |-> "",
          auditList |-> <<>>, chargesPosted |-> 0, inserted |-> 0,
          preview |-> Invoice(<<>>, <<>>, [cgst |-> 0, sgst |-> 0])]
DefaultTaxes == [cgst |-> DefaultTaxPercentage, sgst |-> DefaultTaxPercentage]

\* user_profiles.role of the user signed in at each terminal
Role(t) == IF t = 1 THEN "manager" ELSE "staff"
\* the pages of the manager-only entries of the Layout menu
ManagerPages == {"nightaudit", "ratecalendar", "reports", "settings"}
\* Layout.navigation: the menu entries shown to the signed-in user
navigation(t) == (Pages \ ManagerPages) \cup (IF Role(t) = "manager" THEN ManagerPages ELSE {})

\* ------------------------------------------------------- store queries
\* a store request either succeeds or returns an error; MaxFailures bounds the errors
CanFail == failures < MaxFailures
Outcomes == IF CanFail THEN {TRUE, FALSE} ELSE {TRUE}
Failed(ok) == IF ok THEN failures ELSE failures + 1

BookingIds == 1..Len(bookings)
CheckedIn == {b \in BookingIds : bookings[b].status = "checked_in"}
VacantClean == {r \in Rooms : rooms[r] = "vacant_clean"}

ChargesOf(fc, b) == SelectSeq(fc, LAMBDA c : c.booking_id = b)
PaymentsOf(ps, b) == SelectSeq(ps, LAMBDA p : p.booking_id = b)
DocsOf(b, ty) == SelectSeq(guest_documents, LAMBDA d : d.booking_id = b /\ d.document_type = ty)
RoomRentOn(fc, b, d) ==
  SelectSeq(fc, LAMBDA c : c.booking_id = b /\ c.charge_date = d /\ c.charge_type = "room_rent")

GuestByMobile(m) == {g \in 1..Len(guests) : guests[g].mobile = m}

\* an insert that replaces the row of the same booking, date and type when there is one
InsertChargeReplacing(fc, row) ==
  LET same == {i \in 1..Len(fc) : /\ fc[i].booking_id = row.booking_id
                                  /\ fc[i].charge_date = row.charge_date
                                  /\ fc[i].charge_type = row.charge_type}
  IN IF row.charge_type \notin ChargeTypes THEN fc
     ELSE IF same = {} THEN Append(fc, row)
     ELSE [fc EXCEPT ![CHOOSE i \in same : TRUE] = row]

\* folio_charges insert: the valid_charge_type CHECK rejects any other type
InsertCharge(fc, row) == IF row.charge_type \in ChargeTypes THEN Append(fc, row) ELSE fc

Charge(b, d, ty, amt) == [booking_id |-> b, charge_date |-> d, charge_type |-> ty, amount |-> amt]
Payment(b, amt, d) == [booking_id |-> b, amount |-> amt, payment_date |-> d]

\* ------------------------------------------------------------------- Init
\* the store after the migrations and the sample data; every terminal on the dashboard
Init ==
  /\ rooms = [r \in Rooms |-> "vacant_clean"]
  /\ guests = <<>>
  /\ reservations = <<>>
  /\ bookings = <<>>
  /\ folio_charges = <<>>
  /\ payments = <<>>
  /\ guest_documents = <<>>
  /\ tax_config = [CGST |-> [tax_percentage |-> 6, is_active |-> TRUE],
                   SGST |-> [tax_percentage |-> 6, is_active |-> TRUE]]
  /\ today = 1
  /\ failures = 0
  /\ page = [t \in Terminals |-> "dashboard"]
  /\ modal = [t \in Terminals |-> "none"]
  /\ pc = [t \in Terminals |-> "idle"]
  /\ selectedGuest = [t \in Terminals |-> 0]
  /\ selectedReservation = [t \in Terminals |-> 0]
  /\ availableRooms = [t \in Terminals |-> {}]
  /\ selectedBooking = [t \in Terminals |-> NoBooking]
  /\ taxes = [t \in Terminals |-> DefaultTaxes]
  /\ folioCharges = [t \in Terminals |-> <<>>]
  /\ pagePayments = [t \in Terminals |-> <<>>]
  /\ checkoutPaymentData = [t \in Terminals |-> -1]
  /\ loc = [t \in Terminals |-> NoLoc]
  /\ inHouseBookings = [t \in Terminals |-> <<>>]
  /\ auditComplete = [t \in Terminals |-> FALSE]
  /\ auditLog = <<>>

\* ------------------------------------------------------------ environment
\* a manager changes a tax_config row in the store (RLS: managers can manage tax config)
ChangeTaxConfig(name, pct) ==
  /\ pct \in TaxPercentages
  /\ tax_config[name].tax_percentage # pct
  /\ tax_config' = [tax_config EXCEPT ![name].tax_percentage = pct]
  /\ UNCHANGED <<rooms, guests, reservations, bookings, folio_charges, payments,
                 guest_documents, today, failures, uiVars, auditLog>>

\* the percentages of the active tax_config rows (.eq('is_active', true)), 0 without a row
ActiveTaxRates ==
  [cgst |-> IF tax_config.CGST.is_active THEN tax_config.CGST.tax_percentage ELSE 0,
   sgst |-> IF tax_config.SGST.is_active THEN tax_config.SGST.tax_percentage ELSE 0]

\* InHouse.loadTaxes: the active rows, with the || 6 fallback
loadTaxes ==
  LET cgst == IF tax_config.CGST.is_active THEN tax_config.CGST.tax_percentage ELSE 0
      sgst == IF tax_config.SGST.is_active THEN tax_config.SGST.tax_percentage ELSE 0
  IN [cgst |-> IF cgst # 0 THEN cgst ELSE DefaultTaxPercentage,
      sgst |-> IF sgst # 0 THEN sgst ELSE DefaultTaxPercentage]

\* NightAudit.loadAuditData: the checked-in bookings with their room
loadAuditData ==
  LET ids == CheckedIn
      RECURSIVE rows(_)
      rows(n) == IF n = 0 THEN <<>>
                 ELSE IF n \in ids
                      THEN Append(rows(n - 1), [id |-> n, check_in_date |-> bookings[n].check_in_date,
                                               room_id |-> bookings[n].room_id])
                      ELSE rows(n - 1)
  IN rows(Len(bookings))

\* midnight passes; a NightAudit page that is open computes today anew at its next render
\* and its effect on [today] loads the audit data again
AdvanceDay ==
  /\ today < MaxDay
  /\ today' = today + 1
  /\ auditLog' = <<>>
  /\ inHouseBookings' = [t \in Terminals |->
        IF page[t] = "nightaudit" THEN loadAuditData ELSE inHouseBookings[t]]
  /\ UNCHANGED <<storeVars, failures, page, modal, pc, selectedGuest, selectedReservation,
                 availableRooms, selectedBooking, taxes, folioCharges, pagePayments,
                 checkoutPaymentData, loc, auditComplete>>

\* App.renderPage after a hash change: the old page unmounts, the new one mounts and loads
Navigate(t, p) ==
  /\ pc[t] = "idle"
  /\ p \in Pages /\ p # page[t]
  /\ page' = [page EXCEPT ![t] = p]
  /\ modal' = [modal EXCEPT ![t] = "none"]
  /\ selectedGuest' = [selectedGuest EXCEPT ![t] = 0]
  /\ selectedReservation' = [selectedReservation EXCEPT ![t] = 0]
  /\ availableRooms' = [availableRooms EXCEPT ![t] = IF p = "checkin" THEN VacantClean ELSE {}]
  /\ selectedBooking' = [selectedBooking EXCEPT ![t] = NoBooking]
  /\ taxes' = [taxes EXCEPT ![t] = IF p = "inhouse" THEN loadTaxes ELSE DefaultTaxes]
  /\ folioCharges' = [folioCharges EXCEPT ![t] = <<>>]
  /\ pagePayments' = [pagePayments EXCEPT ![t] = <<>>]
  /\ checkoutPaymentData' = [checkoutPaymentData EXCEPT ![t] = -1]
  /\ loc' = [loc EXCEPT ![t] = NoLoc]
  /\ inHouseBookings' = [inHouseBookings EXCEPT ![t] = IF p = "nightaudit" THEN loadAuditData ELSE <<>>]
  /\ auditComplete' = [auditComplete EXCEPT ![t] = FALSE]
  /\ UNCHANGED <<storeVars, today, failures, pc, auditLog>>

\* ------------------------------------------------------ Reservations page
\* Reservations.handleNewReservation: find the guest by mobile or create it, insert the
\* reservation; f is the request that fails (0 = none, 1 = guest insert, 2 = reservation insert)
handleNewReservation(t, mobile, rt, cin, cout, f) ==
  /\ page[t] = "reservations" /\ pc[t] = "idle"
  /\ Len(reservations) < MaxReservations
  /\ cin \in today..MaxDay /\ cout \in (cin + 1)..(MaxDay + 1)
  /\ f \in 0..2 /\ (f # 0 => CanFail)
  /\ LET existing == GuestByMobile(mobile)
         guestFails == existing = {} /\ f = 1
         guests1 == IF existing = {} /\ f # 1
                    THEN Append(guests, [mobile |-> mobile, id_proof_number |-> ""])
                    ELSE guests
         guestId == IF existing # {} THEN CHOOSE g \in existing : TRUE ELSE Len(guests1)
     IN /\ (f = 1 => existing = {})
        /\ guests' = guests1
        /\ reservations' = IF guestFails \/ f = 2 THEN reservations
                           ELSE Append(reservations,
                                  [guest_id |-> guestId, room_type |-> rt, check_in_date |-> cin,
                                   check_out_date |-> cout, status |-> "confirmed"])
  /\ failures' = IF f = 0 THEN failures ELSE failures + 1
  /\ UNCHANGED <<rooms, bookings, folio_charges, payments, guest_documents, tax_config,
                 today, uiVars, auditLog>>

\* guests.mobile is UNIQUE: the store rejects a second row with the same mobile
InsertGuestNoUnique(gs, row) == Append(gs, row)

InsertGuest(gs, row) ==
  IF \E g \in 1..Len(gs) : gs[g].mobile = row.mobile THEN gs ELSE Append(gs, row)

\* the guest lookup by mobile that opens handleNewReservation, handleCreateReservation and
\* processWalkIn: the row's id, or 0 when there is none or the request returns an error
GuestLookup(mobile, ok) ==
  IF ok /\ GuestByMobile(mobile) # {} THEN CHOOSE g \in GuestByMobile(mobile) : TRUE ELSE 0

\* handlers between their guest lookup and their inserts
GuestSteps == {"nr_insert", "tc_insert", "wi_insert"}
\* reservations being created by a handler that has not inserted yet
PendingReservations == Cardinality({t \in Terminals : pc[t] \in {"nr_insert", "tc_insert"}})
PendingBookings == Cardinality({t \in Terminals : pc[t] = "wi_insert"})

\* Reservations.handleNewReservation, first request: select the guest by mobile (maybeSingle)
handleNewReservationLookup(t, mobile, ok) ==
  /\ page[t] = "reservations" /\ pc[t] = "idle"
  /\ Len(reservations) + PendingReservations < MaxReservations
  /\ mobile \in Mobiles
  /\ ok \in Outcomes
  /\ loc' = [loc EXCEPT ![t].existingGuest = GuestLookup(mobile, ok), ![t].mobile = mobile]
  /\ pc' = [pc EXCEPT ![t] = "nr_insert"]
  /\ failures' = Failed(ok)
  /\ UNCHANGED <<storeVars, today, page, modal, selectedGuest, selectedReservation,
                 availableRooms, selectedBooking, taxes, folioCharges, pagePayments,
                 checkoutPaymentData, inHouseBookings, auditComplete, auditLog>>

\* Reservations.handleNewReservation, the rest: insert the guest when the lookup found none
\* (a failed insert throws), then the reservation (f: 1 = guest insert, 2 = reservation insert)
handleNewReservationInsert(t, rt, cin, cout, f) ==
  /\ page[t] = "reservations" /\ pc[t] = "nr_insert"
  /\ cin \in today..MaxDay /\ cout \in (cin + 1)..(MaxDay + 1)
  /\ f \in 0..2 /\ (f # 0 => CanFail)
  /\ (f = 1 => loc[t].existingGuest = 0)
  /\ LET row == [mobile |-> loc[t].mobile, id_proof_number |-> ""]
         guests1 == IF loc[t].existingGuest = 0 /\ f # 1 THEN InsertGuest(guests, row) ELSE guests
         guestError == loc[t].existingGuest = 0 /\ guests1 = guests
         guestId == IF loc[t].existingGuest # 0 THEN loc[t].existingGuest ELSE Len(guests1)
     IN /\ guests' = guests1
        /\ reservations' = IF guestError \/ f = 2 THEN reservations
                           ELSE Append(reservations,
                                  [guest_id |-> guestId, room_type |-> rt, check_in_date |-> cin,
                                   check_out_date |-> cout, status |-> "confirmed"])
  /\ failures' = IF f = 0 THEN failures ELSE failures + 1
  /\ pc' = [pc EXCEPT ![t] = "idle"]
  /\ loc' = [loc EXCEPT ![t] = NoLoc]
  /\ UNCHANGED <<rooms, bookings, folio_charges, payments, guest_documents, tax_config,
                 today, page, modal, selectedGuest, selectedReservation, availableRooms,
                 selectedBooking, taxes, folioCharges, pagePayments, checkoutPaymentData,
                 inHouseBookings, auditComplete, auditLog>>

\* ------------------------------------------------------------ Tape chart
\* TapeChart.handleCreateReservation, first request: select the guest by mobile (single)
handleCreateReservationLookup(t, mobile, ok) ==
  /\ page[t] = "tapechart" /\ pc[t] = "idle"
  /\ Len(reservations) + PendingReservations < MaxReservations
  /\ mobile \in Mobiles
  /\ ok \in Outcomes
  /\ loc' = [loc EXCEPT ![t].existingGuest = GuestLookup(mobile, ok), ![t].mobile = mobile]
  /\ pc' = [pc EXCEPT ![t] = "tc_insert"]
  /\ failures' = Failed(ok)
  /\ UNCHANGED <<storeVars, today, page, modal, selectedGuest, selectedReservation,
                 availableRooms, selectedBooking, taxes, folioCharges, pagePayments,
                 checkoutPaymentData, inHouseBookings, auditComplete, auditLog>>

\* TapeChart.handleCreateReservation, the rest: insert the guest when the lookup found none,
\* then a confirmed reservation of the clicked room and date for the chosen nights
\* (f: 1 = guest insert, 2 = reservation insert)
handleCreateReservationInsert(t, roomId, date, nights, f) ==
  /\ page[t] = "tapechart" /\ pc[t] = "tc_insert"
  /\ roomId \in Rooms
  /\ date \in today..MaxDay /\ nights \in 1..2 /\ date + nights <= MaxDay + 1
  /\ f \in 0..2 /\ (f # 0 => CanFail)
  /\ (f = 1 => loc[t].existingGuest = 0)
  /\ LET row == [mobile |-> loc[t].mobile, id_proof_number |-> ""]
         guests1 == IF loc[t].existingGuest = 0 /\ f # 1 THEN InsertGuest(guests, row) ELSE guests
         guestError == loc[t].existingGuest = 0 /\ guests1 = guests
         guestId == IF loc[t].existingGuest # 0 THEN loc[t].existingGuest ELSE Len(guests1)
     IN /\ guests' = guests1
        /\ reservations' = IF guestError \/ f = 2 THEN reservations
                           ELSE Append(reservations,
                                  [guest_id |-> guestId, room_type |-> RoomType(roomId),
                                   check_in_date |-> date, check_out_date |-> date + nights,
                                   status |-> "confirmed"])
  /\ failures' = IF f = 0 THEN failures ELSE failures + 1
  /\ pc' = [pc EXCEPT ![t] = "idle"]
  /\ loc' = [loc EXCEPT ![t] = NoLoc]
  /\ UNCHANGED <<rooms, bookings, folio_charges, payments, guest_documents, tax_config,
                 today, page, modal, selectedGuest, selectedReservation, availableRooms,
                 selectedBooking, taxes, folioCharges, pagePayments, checkoutPaymentData,
                 inHouseBookings, auditComplete, auditLog>>

\* Reservations.handleCancelReservation: the Cancel button of a row the list shows as
\* confirmed (taken here at a freshly loaded list); the update is by id alone and its error
\* is not looked at
handleCancelReservation(t, id, ok) ==
  /\ page[t] = "reservations" /\ pc[t] = "idle"
  /\ id \in 1..Len(reservations)
  /\ reservations[id].status = "confirmed"
  /\ ok \in Outcomes
  /\ reservations' = IF ok THEN [reservations EXCEPT ![id].status = "cancelled"] ELSE reservations
  /\ failures' = Failed(ok)
  /\ UNCHANGED <<rooms, guests, bookings, folio_charges, payments, guest_documents,
                 tax_config, today, uiVars, auditLog>>

\* ------------------------------------------------------------ Guests page
\* Guests.handleSelectGuest
handleSelectGuest(t, g) ==
  /\ page[t] = "guests" /\ pc[t] = "idle" /\ modal[t] = "none"
  /\ g \in 1..Len(guests)
  /\ selectedGuest' = [selectedGuest EXCEPT ![t] = g]
  /\ UNCHANGED <<storeVars, today, failures, page, modal, pc, selectedReservation,
                 availableRooms, selectedBooking, taxes, folioCharges, pagePayments,
                 checkoutPaymentData, loc, inHouseBookings, auditComplete, auditLog>>

\* Guests.handleInitiateCheckin: r = 0 is the walk-in button, otherwise a confirmed
\* reservation of the guest that is due; loads the vacant_clean rooms (of its room type)
handleInitiateCheckin(t, r) ==
  /\ page[t] = "guests" /\ pc[t] = "idle" /\ modal[t] = "none"
  /\ selectedGuest[t] # 0
  /\ r \in 0..Len(reservations)
  /\ r # 0 => /\ reservations[r].guest_id = selectedGuest[t]
              /\ reservations[r].status = "confirmed"
              /\ reservations[r].check_in_date <= today
  /\ selectedReservation' = [selectedReservation EXCEPT ![t] = r]
  /\ availableRooms' = [availableRooms EXCEPT ![t] =
        IF r = 0 THEN VacantClean
        ELSE {x \in VacantClean : RoomType(x) = reservations[r].room_type}]
  /\ modal' = [modal EXCEPT ![t] = "checkin"]
  /\ UNCHANGED <<storeVars, today, failures, page, pc, selectedGuest, selectedBooking,
                 taxes, folioCharges, pagePayments, checkoutPaymentData, loc,
                 inHouseBookings, auditComplete, auditLog>>

\* the instant a handler runs: some moment inside the current day
Now == DateInstant(today) + 1

\* Guests.handleCheckin, the room_rent rows of the nights loop (request k fails: row k dropped)
CheckinCharges(b, roomId, checkOutDate, failAt) ==
  LET nights == Ceil(DateInstant(checkOutDate) - Now, TicksPerDay)
      rows == [i \in 1..(IF nights > 0 THEN nights ELSE 0) |->
                 Charge(b, DateOf(Now) + (i - 1), "room_rent", BaseRate(RoomType(roomId)))]
  IN RemoveAt(rows, failAt)

\* Guests.handleCheckin; f is the request that fails: 0 none, 1 guest update, 2 booking insert
\* (throws), 3 room update, 4 reservation update, 5 advance payment insert, 5 + i charge i
handleCheckin(t, roomId, checkOutDate, advancePayment, idProof, f) ==
  /\ page[t] = "guests" /\ pc[t] = "idle" /\ modal[t] = "checkin"
  /\ selectedGuest[t] # 0
  /\ roomId \in availableRooms[t]
  /\ checkOutDate \in today..(MaxDay + 1)
  /\ advancePayment \in PaymentAmounts
  /\ Len(bookings) < MaxBookings
  /\ f \in 0..(5 + MaxDay) /\ (f # 0 => CanFail)
  /\ LET g == selectedGuest[t]
         r == selectedReservation[t]
         b == Len(bookings) + 1
         rows == CheckinCharges(b, roomId, checkOutDate, f - 5)
         formProof == IF guests[g].id_proof_number = "" THEN idProof ELSE ""
     IN /\ idProof \in {"ID"}
        /\ f > 5 => f - 5 <= Len(CheckinCharges(b, roomId, checkOutDate, 0))
        /\ f = 4 => r # 0
        /\ f = 5 => advancePayment > 0
        /\ Len(folio_charges) + Len(rows) <= MaxCharges
        /\ (advancePayment > 0 => Len(payments) < MaxPayments)
        /\ guests' = IF f = 1 THEN guests ELSE [guests EXCEPT ![g].id_proof_number = formProof]
        /\ IF f = 2
           THEN UNCHANGED <<rooms, reservations, bookings, folio_charges, payments, modal,
                            selectedGuest, selectedReservation>>
           ELSE /\ bookings' = Append(bookings,
                       [reservation_id |-> r, guest_id |-> g, room_id |-> roomId,
                        check_in_date |-> DateOf(Now), expected_check_out_date |-> checkOutDate,
                        actual_check_out_date |-> 0, status |-> "checked_in"])
                /\ rooms' = IF f = 3 THEN rooms ELSE [rooms EXCEPT ![roomId] = "occupied"]
                /\ reservations' = IF r # 0 /\ f # 4
                                   THEN [reservations EXCEPT ![r].status = "checked_in"]
                                   ELSE reservations
                /\ folio_charges' = folio_charges \o rows
                /\ payments' = IF advancePayment > 0 /\ f # 5
                               THEN Append(payments, Payment(b, advancePayment, today))
                               ELSE payments
                /\ modal' = [modal EXCEPT ![t] = "none"]
                /\ selectedGuest' = [selectedGuest EXCEPT ![t] = 0]
                /\ selectedReservation' = [selectedReservation EXCEPT ![t] = 0]
  /\ failures' = IF f = 0 THEN failures ELSE failures + 1
  /\ UNCHANGED <<guest_documents, tax_config, today, page, pc, availableRooms,
                 selectedBooking, taxes, folioCharges, pagePayments, checkoutPaymentData,
                 loc, inHouseBookings, auditComplete, auditLog>>

\* ----------------------------------------------------------- CheckIn page
\* CheckIn.loadData: on mount and again whenever a realtime event is delivered
loadData(t) ==
  /\ page[t] = "checkin" /\ pc[t] = "idle"
  /\ availableRooms[t] # VacantClean
  /\ availableRooms' = [availableRooms EXCEPT ![t] = VacantClean]
  /\ UNCHANGED <<storeVars, today, failures, page, modal, pc, selectedGuest,
                 selectedReservation, selectedBooking, taxes, folioCharges, pagePayments,
                 checkoutPaymentData, loc, inHouseBookings, auditComplete, auditLog>>

\* CheckIn.initiateCheckIn on an arrival of the loaded lists (confirmed, due today or overdue)
initiateCheckIn(t, r) ==
  /\ page[t] = "checkin" /\ pc[t] = "idle" /\ modal[t] = "none"
  /\ r \in 1..Len(reservations)
  /\ reservations[r].status = "confirmed"
  /\ reservations[r].check_in_date <= today
  /\ selectedReservation' = [selectedReservation EXCEPT ![t] = r]
  /\ modal' = [modal EXCEPT ![t] = "checkin"]
  /\ UNCHANGED <<storeVars, today, failures, page, pc, selectedGuest, availableRooms,
                 selectedBooking, taxes, folioCharges, pagePayments, checkoutPaymentData,
                 loc, inHouseBookings, auditComplete, auditLog>>

\* CheckIn.processCheckIn; f is the request that fails: 0 none, 1 booking insert (throws),
\* 2 folio insert, 3 room update, 4 reservation update
processCheckIn(t, selectedRoom, f) ==
  /\ page[t] = "checkin" /\ pc[t] = "idle" /\ modal[t] = "checkin"
  /\ selectedReservation[t] # 0
  /\ selectedRoom \in availableRooms[t]
  /\ RoomType(selectedRoom) = reservations[selectedReservation[t]].room_type
  /\ Len(bookings) < MaxBookings /\ Len(folio_charges) < MaxCharges
  /\ f \in 0..4 /\ (f # 0 => CanFail)
  /\ LET r == selectedReservation[t]
         b == Len(bookings) + 1
         nights == Ceil(DateInstant(reservations[r].check_out_date) - Now, TicksPerDay)
         roomRate == BaseRate(RoomType(selectedRoom)) * nights
     IN IF f = 1
        THEN UNCHANGED <<rooms, reservations, bookings, folio_charges, modal,
                         selectedReservation, availableRooms>>
        ELSE /\ bookings' = Append(bookings,
                    [reservation_id |-> 0, guest_id |-> reservations[r].guest_id,
                     room_id |-> selectedRoom, check_in_date |-> DateOf(Now),
                     expected_check_out_date |-> reservations[r].check_out_date,
                     actual_check_out_date |-> 0, status |-> "checked_in"])
             /\ folio_charges' = IF f = 2 THEN folio_charges
                                 ELSE InsertCharge(folio_charges, Charge(b, DateOf(Now), "room", roomRate))
             /\ rooms' = IF f = 3 THEN rooms ELSE [rooms EXCEPT ![selectedRoom] = "occupied"]
             /\ reservations' = IF f = 4 THEN reservations
                                ELSE [reservations EXCEPT ![r].status = "checked_in"]
             /\ modal' = [modal EXCEPT ![t] = "none"]
             /\ selectedReservation' = [selectedReservation EXCEPT ![t] = 0]
             /\ availableRooms' = [availableRooms EXCEPT ![t] = {x \in Rooms : rooms'[x] = "vacant_clean"}]
  /\ failures' = IF f = 0 THEN failures ELSE failures + 1
  /\ UNCHANGED <<guests, payments, guest_documents, tax_config, today, page, pc,
                 selectedGuest, selectedBooking, taxes, folioCharges, pagePayments,
                 checkoutPaymentData, loc, inHouseBookings, auditComplete, auditLog>>

\* CheckIn.processWalkIn; f is the request that fails: 0 none, 1 guest lookup, 2 guest insert
\* (throws), 3 booking insert (throws), 4 folio insert, 5 payment insert, 6 room update
processWalkIn(t, mobile, roomId, nights, advancePayment, f) ==
  /\ page[t] = "checkin" /\ pc[t] = "idle" /\ modal[t] = "none"
  /\ roomId \in availableRooms[t]
  /\ nights \in 1..2 /\ today + nights <= MaxDay + 1
  /\ advancePayment \in PaymentAmounts
  /\ Len(bookings) < MaxBookings /\ Len(folio_charges) < MaxCharges
  /\ (advancePayment > 0 => Len(payments) < MaxPayments)
  /\ f \in 0..6 /\ (f # 0 => CanFail)
  /\ f = 5 => advancePayment > 0
  /\ LET existing == GuestByMobile(mobile)
         found == existing # {} /\ f # 1
         \* the insert of an existing mobile violates the UNIQUE constraint
         inserted == existing = {} /\ f # 2
         guests1 == IF ~found /\ inserted
                    THEN Append(guests, [mobile |-> mobile, id_proof_number |-> "ID"])
                    ELSE guests
         guestId == IF found THEN CHOOSE g \in existing : TRUE ELSE Len(guests1)
         thrown == (~found /\ ~inserted) \/ f = 3
         b == Len(bookings) + 1
         roomRate == BaseRate(RoomType(roomId)) * nights
     IN /\ (f = 2 => ~found)
        /\ guests' = guests1
        /\ IF thrown
           THEN UNCHANGED <<rooms, bookings, folio_charges, payments, availableRooms>>
           ELSE /\ bookings' = Append(bookings,
                       [reservation_id |-> 0, guest_id |-> guestId, room_id |-> roomId,
                        check_in_date |-> DateOf(Now),
                        expected_check_out_date |-> DateOf(Now + nights * TicksPerDay),
                        actual_check_out_date |-> 0, status |-> "checked_in"])
                /\ folio_charges' = IF f = 4 THEN folio_charges
                                    ELSE InsertCharge(folio_charges, Charge(b, DateOf(Now), "room", roomRate))
                /\ payments' = IF advancePayment > 0 /\ f # 5
                               THEN Append(payments, Payment(b, advancePayment, today))
                               ELSE payments
                /\ rooms' = IF f = 6 THEN rooms ELSE [rooms EXCEPT ![roomId] = "occupied"]
                /\ availableRooms' = [availableRooms EXCEPT ![t] = {x \in Rooms : rooms'[x] = "vacant_clean"}]
  /\ failures' = IF f = 0 THEN failures ELSE failures + 1
  /\ UNCHANGED <<reservations, guest_documents, tax_config, today, page, modal, pc,
                 selectedGuest, selectedReservation, selectedBooking, taxes, folioCharges,
                 pagePayments, checkoutPaymentData, loc, inHouseBookings, auditComplete,
                 auditLog>>

\* CheckIn.processWalkIn, first request: select the guest by mobile (single)
processWalkInLookup(t, mobile, ok) ==
  /\ page[t] = "checkin" /\ pc[t] = "idle" /\ modal[t] = "none"
  /\ Len(bookings) + PendingBookings < MaxBookings
  /\ mobile \in Mobiles
  /\ ok \in Outcomes
  /\ loc' = [loc EXCEPT ![t].existingGuest = GuestLookup(mobile, ok), ![t].mobile = mobile]
  /\ pc' = [pc EXCEPT ![t] = "wi_insert"]
  /\ failures' = Failed(ok)
  /\ UNCHANGED <<storeVars, today, page, modal, selectedGuest, selectedReservation,
                 availableRooms, selectedBooking, taxes, folioCharges, pagePayments,
                 checkoutPaymentData, inHouseBookings, auditComplete, auditLog>>

\* CheckIn.processWalkIn, the rest: insert the guest when the lookup found none, then the
\* booking, its room charge, the advance payment and the room status
\* (f: 2 = guest insert, 3 = booking insert, 4 = charge, 5 = payment, 6 = room update)
processWalkInInsert(t, roomId, nights, advancePayment, f) ==
  /\ page[t] = "checkin" /\ pc[t] = "wi_insert"
  /\ roomId \in availableRooms[t]
  /\ nights \in 1..2 /\ today + nights <= MaxDay + 1
  /\ advancePayment \in PaymentAmounts
  /\ Len(folio_charges) < MaxCharges
  /\ (advancePayment > 0 => Len(payments) < MaxPayments)
  /\ f \in {0} \cup 2..6 /\ (f # 0 => CanFail)
  /\ (f = 2 => loc[t].existingGuest = 0)
  /\ f = 5 => advancePayment > 0
  /\ LET row == [mobile |-> loc[t].mobile, id_proof_number |-> "ID"]
         guests1 == IF loc[t].existingGuest = 0 /\ f # 2 THEN InsertGuest(guests, row) ELSE guests
         guestError == loc[t].existingGuest = 0 /\ guests1 = guests
         guestId == IF loc[t].existingGuest # 0 THEN loc[t].existingGuest ELSE Len(guests1)
         thrown == guestError \/ f = 3
         b == Len(bookings) + 1
         roomRate == BaseRate(RoomType(roomId)) * nights
     IN /\ guests' = guests1
        /\ IF thrown
           THEN UNCHANGED <<rooms, bookings, folio_charges, payments, availableRooms>>
           ELSE /\ bookings' = Append(bookings,
                       [reservation_id |-> 0, guest_id |-> guestId, room_id |-> roomId,
                        check_in_date |-> DateOf(Now),
                        expected_check_out_date |-> DateOf(Now + nights * TicksPerDay),
                        actual_check_out_date |-> 0, status |-> "checked_in"])
                /\ folio_charges' = IF f = 4 THEN folio_charges
                                    ELSE InsertCharge(folio_charges, Charge(b, DateOf(Now), "room", roomRate))
                /\ payments' = IF advancePayment > 0 /\ f # 5
                               THEN Append(payments, Payment(b, advancePayment, today))
                               ELSE payments
                /\ rooms' = IF f = 6 THEN rooms ELSE [rooms EXCEPT ![roomId] = "occupied"]
                /\ availableRooms' = [availableRooms EXCEPT ![t] = {x \in Rooms : rooms'[x] = "vacant_clean"}]
  /\ failures' = IF f = 0 THEN failures ELSE failures + 1
  /\ pc' = [pc EXCEPT ![t] = "idle"]
  /\ loc' = [loc EXCEPT ![t] = NoLoc]
  /\ UNCHANGED <<reservations, guest_documents, tax_config, today, page, modal,
                 selectedGuest, selectedReservation, selectedBooking, taxes, folioCharges,
                 pagePayments, checkoutPaymentData, inHouseBookings, auditComplete,
                 auditLog>>

\* ------------------------------------------------------ document archive
DocumentNumber(prefix, b) == <<prefix, b>>

\* documentArchiveService.generateInvoiceHTML: what the markup shows
generateInvoiceHTML(documentNumber, data) ==
  [title |-> documentNumber,
   chargeRows |-> [i \in 1..Len(data.charges) |-> data.charges[i].amount],
   paymentRows |-> [i \in 1..Len(data.payments) |-> data.payments[i].amount],
   taxes |-> data.taxes,
   subtotal |-> ToFixed2(data.totals.subtotal),
   cgst_amount |-> ToFixed2(data.totals.cgst_amount),
   sgst_amount |-> ToFixed2(data.totals.sgst_amount),
   grand_total |-> ToFixed2(data.totals.grand_total),
   total_paid |-> ToFixed2(data.totals.total_paid),
   balance |-> IF data.totals.balance > 0 THEN ToFixed2(data.totals.balance) ELSE 0]

\* documentArchiveService.generateGRCHTML: guest, room and stay only
generateGRCHTML(documentNumber, data) ==
  [title |-> documentNumber, guest |-> data.guest, room |-> data.room_number,
   check_out_date |-> data.check_out_date]

\* an archive that embeds the tax rates as the store has them at the insert, while the
\* totals are those of the rates the page loaded
InvoiceRowRatesOfStore(booking, guestId, charges, pays, tx) ==
  LET documentNumber == DocumentNumber(InvoicePrefix, booking.id)
      documentData == [guest |-> [id |-> guestId, id_proof_number |-> booking.guests.id_proof_number],
                       room_number |-> booking.room_id,
                       check_out_date |-> booking.expected_check_out_date,
                       charges |-> charges, payments |-> pays, taxes |-> loadTaxes,
                       totals |-> InvoiceTotals(charges, pays, tx)]
  IN [booking_id |-> booking.id, guest_id |-> guestId, document_type |-> "invoice",
      document_number |-> documentNumber,
      document_html |-> generateInvoiceHTML(documentNumber, documentData),
      document_data |-> documentData]

\* documentArchiveService.archiveInvoice: the row it inserts
InvoiceRow(booking, guestId, charges, pays, tx) ==
  LET documentNumber == DocumentNumber(InvoicePrefix, booking.id)
      documentData == [guest |-> [id |-> guestId, id_proof_number |-> booking.guests.id_proof_number],
                       room_number |-> booking.room_id,
                       check_out_date |-> booking.expected_check_out_date,
                       charges |-> charges, payments |-> pays, taxes |-> tx,
                       totals |-> InvoiceTotals(charges, pays, tx)]
  IN [booking_id |-> booking.id, guest_id |-> guestId, document_type |-> "invoice",
      document_number |-> documentNumber,
      document_html |-> generateInvoiceHTML(documentNumber, documentData),
      document_data |-> documentData]

\* documentArchiveService.archiveGRC: the row it inserts
GRCRow(booking, guestId, tx) ==
  LET documentNumber == DocumentNumber(GrcPrefix, booking.id)
      documentData == [guest |-> [id |-> guestId, id_proof_number |-> booking.guests.id_proof_number],
                       room_number |-> booking.room_id,
                       check_out_date |-> booking.expected_check_out_date,
                       charges |-> <<>>, payments |-> <<>>, taxes |-> tx,
                       totals |-> [subtotal |-> 0, cgst_amount |-> 0, sgst_amount |-> 0,
                                   grand_total |-> 0, total_paid |-> 0, balance |-> 0]]
  IN [booking_id |-> booking.id, guest_id |-> guestId, document_type |-> "grc",
      document_number |-> documentNumber,
      document_html |-> generateGRCHTML(documentNumber, documentData),
      document_data |-> documentData]

\* an archive that keeps one invoice per booking: a second archival replaces the row
archiveInvoiceUpsert(docs, booking, guestId, charges, pays, tx, ok) ==
  LET old == {i \in 1..Len(docs) : docs[i].booking_id = booking.id /\ docs[i].document_type = "invoice"}
      row == [booking_id |-> booking.id, guest_id |-> guestId, document_type |-> "invoice",
              document_number |-> DocumentNumber(InvoicePrefix, booking.id),
              document_html |-> generateInvoiceHTML(DocumentNumber(InvoicePrefix, booking.id),
                                   [charges |-> charges, payments |-> pays, taxes |-> tx,
                                    totals |-> InvoiceTotals(charges, pays, tx)]),
              document_data |-> [guest |-> [id |-> guestId, id_proof_number |-> booking.guests.id_proof_number],
                       room_number |-> booking.room_id,
                                 check_out_date |-> booking.expected_check_out_date,
                                 charges |-> charges, payments |-> pays, taxes |-> tx,
                                 totals |-> InvoiceTotals(charges, pays, tx)]]
  IN IF ~ok THEN docs
     ELSE IF old = {} THEN Append(docs, row)
     ELSE [docs EXCEPT ![CHOOSE i \in old : TRUE] = row]

\* guest_documents insert (RLS: insert and select only); an error leaves the table as it is
archiveInvoice(docs, booking, guestId, charges, pays, tx, ok) ==
  IF ok THEN Append(docs, InvoiceRow(booking, guestId, charges, pays, tx)) ELSE docs

archiveGRC(docs, booking, guestId, tx, ok) ==
  IF ok THEN Append(docs, GRCRow(booking, guestId, tx)) ELSE docs

\* ----------------------------------------------------------- InHouse page
\* .order(column): the rows by ascending key, rows of equal key in insertion order;
\* keys[i] is the value of the column in rows[i]
RECURSIVE OrderBy(_, _)
OrderBy(rows, keys) ==
  IF rows = <<>> THEN <<>>
  ELSE LET least == CHOOSE i \in 1..Len(rows) :
                      \A j \in 1..Len(rows) :
                        keys[i] < keys[j] \/ (keys[i] = keys[j] /\ i <= j)
       IN <<rows[least]>> \o OrderBy(RemoveAt(rows, least), RemoveAt(keys, least))

\* InHouse.loadFolioAndPayments: the two lists of the folio panel
loadFolioAndPayments(fc, pays, bookingId) ==
  LET cs == ChargesOf(fc, bookingId)
      ps == PaymentsOf(pays, bookingId)
  IN [charges |-> OrderBy(cs, [i \in 1..Len(cs) |-> cs[i].charge_date]),
      paymentsData |-> OrderBy(ps, [i \in 1..Len(ps) |-> ps[i].payment_date])]

\* InHouse.loadBookings + handleViewFolio: pick a booking of the checked-in list
handleViewFolio(t, b) ==
  /\ page[t] = "inhouse" /\ pc[t] = "idle" /\ modal[t] = "none"
  /\ b \in CheckedIn
  /\ selectedBooking[t].id # b
  /\ selectedBooking' = [selectedBooking EXCEPT ![t] =
        [id |-> b, room_id |-> bookings[b].room_id,
         expected_check_out_date |-> bookings[b].expected_check_out_date,
         guests |-> [id_proof_number |-> guests[bookings[b].guest_id].id_proof_number]]]
  /\ folioCharges' = [folioCharges EXCEPT ![t] = loadFolioAndPayments(folio_charges, payments, b).charges]
  /\ pagePayments' = [pagePayments EXCEPT ![t] = loadFolioAndPayments(folio_charges, payments, b).paymentsData]
  /\ UNCHANGED <<storeVars, today, failures, page, modal, pc, selectedGuest,
                 selectedReservation, availableRooms, taxes, checkoutPaymentData, loc,
                 inHouseBookings, auditComplete, auditLog>>

\* InHouse.handleAddCharge: one insert, its error is not looked at
handleAddCharge(t, chargeDate, chargeType, amount, ok) ==
  /\ page[t] = "inhouse" /\ pc[t] = "idle" /\ modal[t] = "none"
  /\ selectedBooking[t].id # 0
  /\ chargeDate \in {today} /\ chargeType \in ManualChargeTypes /\ amount \in ManualAmounts
  /\ ok \in Outcomes
  /\ Len(folio_charges) < MaxCharges
  /\ folio_charges' = IF ok
                      THEN InsertCharge(folio_charges,
                                        Charge(selectedBooking[t].id, chargeDate, chargeType, amount))
                      ELSE folio_charges
  /\ folioCharges' = [folioCharges EXCEPT ![t] =
        loadFolioAndPayments(folio_charges', payments, selectedBooking[t].id).charges]
  /\ pagePayments' = [pagePayments EXCEPT ![t] =
        loadFolioAndPayments(folio_charges', payments, selectedBooking[t].id).paymentsData]
  /\ failures' = Failed(ok)
  /\ UNCHANGED <<rooms, guests, reservations, bookings, payments, guest_documents,
                 tax_config, today, page, modal, pc, selectedGuest, selectedReservation,
                 availableRooms, selectedBooking, taxes, checkoutPaymentData, loc,
                 inHouseBookings, auditComplete, auditLog>>

\* useFolioSync: a realtime event of folio_charges or payments reloads the folio panel
useFolioSync(t) ==
  /\ page[t] = "inhouse" /\ selectedBooking[t].id # 0
  /\ LET loaded == loadFolioAndPayments(folio_charges, payments, selectedBooking[t].id)
     IN /\ <<folioCharges[t], pagePayments[t]>> # <<loaded.charges, loaded.paymentsData>>
        /\ folioCharges' = [folioCharges EXCEPT ![t] = loaded.charges]
        /\ pagePayments' = [pagePayments EXCEPT ![t] = loaded.paymentsData]
  /\ UNCHANGED <<storeVars, today, failures, page, modal, pc, selectedGuest,
                 selectedReservation, availableRooms, selectedBooking, taxes,
                 checkoutPaymentData, loc, inHouseBookings, auditComplete, auditLog>>

\* InHouse.handleCheckout: keep the final payment and show the invoice preview
handleCheckout(t, paymentAmount) ==
  /\ page[t] = "inhouse" /\ pc[t] = "idle" /\ modal[t] = "none"
  /\ selectedBooking[t].id # 0
  /\ paymentAmount \in PaymentAmounts
  /\ checkoutPaymentData' = [checkoutPaymentData EXCEPT ![t] = paymentAmount]
  /\ modal' = [modal EXCEPT ![t] = "preview"]
  /\ UNCHANGED <<storeVars, today, failures, page, pc, selectedGuest, selectedReservation,
                 availableRooms, selectedBooking, taxes, folioCharges, pagePayments, loc,
                 inHouseBookings, auditComplete, auditLog>>

InCheckout == {u \in Terminals : pc[u] # "idle"}

\* InHouse.confirmCheckout, the click and its first request: the final payment insert
confirmCheckout(t, ok) ==
  /\ page[t] = "inhouse" /\ pc[t] = "idle" /\ modal[t] = "preview"
  /\ selectedBooking[t].id # 0
  /\ ok \in Outcomes
  /\ Len(guest_documents) + 2 * (Cardinality(InCheckout) + 1) <= MaxDocs
  /\ IF checkoutPaymentData[t] > 0
     THEN /\ Len(payments) < MaxPayments
          /\ payments' = IF ok THEN Append(payments,
                                           Payment(selectedBooking[t].id, checkoutPaymentData[t], today))
                         ELSE payments
          /\ failures' = Failed(ok)
          /\ loc' = [loc EXCEPT ![t].failed = IF ok THEN {} ELSE {"payments.insert"},
                                ![t].ratesAtConfirm = ActiveTaxRates,
                                ![t].preview = Invoice(folioCharges[t], pagePayments[t], taxes[t])]
     ELSE /\ ok
          /\ loc' = [loc EXCEPT ![t].failed = {}, ![t].ratesAtConfirm = ActiveTaxRates,
                                ![t].preview = Invoice(folioCharges[t], pagePayments[t], taxes[t])]
          /\ UNCHANGED <<payments, failures>>
  /\ pc' = [pc EXCEPT ![t] = "co_charges"]
  /\ UNCHANGED <<rooms, guests, reservations, bookings, folio_charges, guest_documents,
                 tax_config, today, page, modal, selectedGuest, selectedReservation,
                 availableRooms, selectedBooking, taxes, folioCharges, pagePayments,
                 checkoutPaymentData, inHouseBookings, auditComplete, auditLog>>

\* confirmCheckout: reload the folio charges (data is null on error, then [])
coLoadCharges(t, ok) ==
  /\ pc[t] = "co_charges" /\ ok \in Outcomes
  /\ loc' = [loc EXCEPT ![t].finalCharges =
               IF ok THEN ChargesOf(folio_charges, selectedBooking[t].id) ELSE <<>>,
                       ![t].failed = IF ok THEN @ ELSE @ \cup {"folio_charges.select"}]
  /\ pc' = [pc EXCEPT ![t] = "co_payments"]
  /\ failures' = Failed(ok)
  /\ UNCHANGED <<storeVars, today, page, modal, selectedGuest, selectedReservation,
                 availableRooms, selectedBooking, taxes, folioCharges, pagePayments,
                 checkoutPaymentData, inHouseBookings, auditComplete, auditLog>>

\* confirmCheckout: reload the payments
coLoadPayments(t, ok) ==
  /\ pc[t] = "co_payments" /\ ok \in Outcomes
  /\ loc' = [loc EXCEPT ![t].finalPayments =
               IF ok THEN PaymentsOf(payments, selectedBooking[t].id) ELSE <<>>,
                       ![t].failed = IF ok THEN @ ELSE @ \cup {"payments.select"}]
  /\ pc' = [pc EXCEPT ![t] = "co_booking"]
  /\ failures' = Failed(ok)
  /\ UNCHANGED <<storeVars, today, page, modal, selectedGuest, selectedReservation,
                 availableRooms, selectedBooking, taxes, folioCharges, pagePayments,
                 checkoutPaymentData, inHouseBookings, auditComplete, auditLog>>

\* confirmCheckout: read guest_id of the booking; without bookingData the archival is skipped
coLoadBooking(t, ok) ==
  /\ pc[t] = "co_booking" /\ ok \in Outcomes
  /\ loc' = [loc EXCEPT ![t].guest_id = IF ok THEN bookings[selectedBooking[t].id].guest_id ELSE 0,
                       ![t].failed = IF ok THEN @ ELSE @ \cup {"bookings.select"}]
  /\ pc' = [pc EXCEPT ![t] = IF ok THEN "co_invoice" ELSE "co_update_booking"]
  /\ failures' = Failed(ok)
  /\ UNCHANGED <<storeVars, today, page, modal, selectedGuest, selectedReservation,
                 availableRooms, selectedBooking, taxes, folioCharges, pagePayments,
                 checkoutPaymentData, inHouseBookings, auditComplete, auditLog>>

\* confirmCheckout: await archiveInvoice(...), its result is not looked at
coArchiveInvoice(t, ok) ==
  /\ pc[t] = "co_invoice" /\ ok \in Outcomes
  /\ guest_documents' = archiveInvoice(guest_documents, selectedBooking[t], loc[t].guest_id,
                                       loc[t].finalCharges, loc[t].finalPayments, taxes[t], ok)
  /\ pc' = [pc EXCEPT ![t] = "co_grc"]
  /\ failures' = Failed(ok)
  /\ loc' = [loc EXCEPT ![t].failed = IF ok THEN @ ELSE @ \cup {"archiveInvoice"}]
  /\ UNCHANGED <<rooms, guests, reservations, bookings, folio_charges, payments,
                 tax_config, today, page, modal, selectedGuest, selectedReservation,
                 availableRooms, selectedBooking, taxes, folioCharges, pagePayments,
                 checkoutPaymentData, inHouseBookings, auditComplete, auditLog>>

\* confirmCheckout: await archiveGRC(...), its result is not looked at
coArchiveGRC(t, ok) ==
  /\ pc[t] = "co_grc" /\ ok \in Outcomes
  /\ guest_documents' = archiveGRC(guest_documents, selectedBooking[t], loc[t].guest_id, taxes[t], ok)
  /\ pc' = [pc EXCEPT ![t] = "co_update_booking"]
  /\ failures' = Failed(ok)
  /\ loc' = [loc EXCEPT ![t].failed = IF ok THEN @ ELSE @ \cup {"archiveGRC"}]
  /\ UNCHANGED <<rooms, guests, reservations, bookings, folio_charges, payments,
                 tax_config, today, page, modal, selectedGuest, selectedReservation,
                 availableRooms, selectedBooking, taxes, folioCharges, pagePayments,
                 checkoutPaymentData, inHouseBookings, auditComplete, auditLog>>

\* confirmCheckout: bookings update to checked_out
coUpdateBooking(t, ok) ==
  /\ pc[t] = "co_update_booking" /\ ok \in Outcomes
  /\ bookings' = IF ok
                 THEN [bookings EXCEPT ![selectedBooking[t].id].status = "checked_out",
                                       ![selectedBooking[t].id].actual_check_out_date = today]
                 ELSE bookings
  /\ pc' = [pc EXCEPT ![t] = "co_update_room"]
  /\ failures' = Failed(ok)
  /\ loc' = [loc EXCEPT ![t].failed = IF ok THEN @ ELSE @ \cup {"bookings.update"}]
  /\ UNCHANGED <<rooms, guests, reservations, folio_charges, payments, guest_documents,
                 tax_config, today, page, modal, selectedGuest, selectedReservation,
                 availableRooms, selectedBooking, taxes, folioCharges, pagePayments,
                 checkoutPaymentData, inHouseBookings, auditComplete, auditLog>>

\* confirmCheckout: rooms update to vacant_dirty, then the page state is cleared
coUpdateRoom(t, ok) ==
  /\ pc[t] = "co_update_room" /\ ok \in Outcomes
  /\ rooms' = IF ok THEN [rooms EXCEPT ![selectedBooking[t].room_id] = "vacant_dirty"] ELSE rooms
  /\ modal' = [modal EXCEPT ![t] = "none"]
  /\ checkoutPaymentData' = [checkoutPaymentData EXCEPT ![t] = -1]
  /\ selectedBooking' = [selectedBooking EXCEPT ![t] = NoBooking]
  /\ loc' = [loc EXCEPT ![t] = NoLoc]
  /\ pc' = [pc EXCEPT ![t] = "idle"]
  /\ failures' = Failed(ok)
  /\ UNCHANGED <<guests, reservations, bookings, folio_charges, payments, guest_documents,
                 tax_config, today, page, selectedGuest, selectedReservation,
                 availableRooms, taxes, folioCharges, pagePayments, inHouseBookings,
                 auditComplete, auditLog>>

\* InHouse.handleExtendStay, the room_rent rows of the additional nights, from the expected
\* check-out date of the selected booking as it was loaded (request failAt fails: row dropped)
ExtendCharges(sel, newCheckoutDate, failAt) ==
  LET additionalNights == Ceil(DateInstant(newCheckoutDate) - DateInstant(sel.expected_check_out_date),
                               TicksPerDay)
      rows == [i \in 1..(IF additionalNights > 0 THEN additionalNights ELSE 0) |->
                 Charge(sel.id, sel.expected_check_out_date + (i - 1), "room_rent",
                        BaseRate(RoomType(sel.room_id)))]
  IN RemoveAt(rows, failAt)

\* InHouse.handleExtendStay; f is the request that fails: 0 none, i the insert of night i,
\* MaxDay + 1 the update of the booking; selectedBooking is not reloaded
handleExtendStay(t, newCheckoutDate, f) ==
  /\ page[t] = "inhouse" /\ pc[t] = "idle" /\ modal[t] = "none"
  /\ selectedBooking[t].id # 0
  /\ newCheckoutDate \in selectedBooking[t].expected_check_out_date..(MaxDay + 1)
  /\ f \in 0..(MaxDay + 1) /\ (f # 0 => CanFail)
  /\ (f # 0 /\ f # MaxDay + 1) => f <= Len(ExtendCharges(selectedBooking[t], newCheckoutDate, 0))
  /\ LET rows == ExtendCharges(selectedBooking[t], newCheckoutDate, f)
     IN /\ Len(folio_charges) + Len(rows) <= MaxCharges
        /\ folio_charges' = folio_charges \o rows
  /\ bookings' = IF f = MaxDay + 1 THEN bookings
                 ELSE [bookings EXCEPT ![selectedBooking[t].id].expected_check_out_date = newCheckoutDate]
  /\ folioCharges' = [folioCharges EXCEPT ![t] =
        loadFolioAndPayments(folio_charges', payments, selectedBooking[t].id).charges]
  /\ pagePayments' = [pagePayments EXCEPT ![t] =
        loadFolioAndPayments(folio_charges', payments, selectedBooking[t].id).paymentsData]
  /\ failures' = IF f = 0 THEN failures ELSE failures + 1
  /\ UNCHANGED <<rooms, guests, reservations, payments, guest_documents, tax_config, today,
                 page, modal, pc, selectedGuest, selectedReservation, availableRooms,
                 selectedBooking, taxes, checkoutPaymentData, loc, inHouseBookings,
                 auditComplete, auditLog>>

\* InHouse "Change Room" button: loadAvailableRooms and open the modal
loadAvailableRooms(t) ==
  /\ page[t] = "inhouse" /\ pc[t] = "idle" /\ modal[t] = "none"
  /\ selectedBooking[t].id # 0
  /\ availableRooms' = [availableRooms EXCEPT ![t] = VacantClean]
  /\ modal' = [modal EXCEPT ![t] = "roomchange"]
  /\ UNCHANGED <<storeVars, today, failures, page, pc, selectedGuest, selectedReservation,
                 selectedBooking, taxes, folioCharges, pagePayments, checkoutPaymentData,
                 loc, inHouseBookings, auditComplete, auditLog>>

\* InHouse.handleRoomChange; f is the request that fails: 0 none, 1 old room update,
\* 2 new room update, 3 booking update
handleRoomChange(t, newRoomId, f) ==
  /\ page[t] = "inhouse" /\ pc[t] = "idle" /\ modal[t] = "roomchange"
  /\ selectedBooking[t].id # 0
  /\ newRoomId \in availableRooms[t]
  /\ f \in 0..3 /\ (f # 0 => CanFail)
  /\ LET rooms1 == IF f = 1 THEN rooms
                   ELSE [rooms EXCEPT ![selectedBooking[t].room_id] = "vacant_dirty"]
     IN rooms' = IF f = 2 THEN rooms1 ELSE [rooms1 EXCEPT ![newRoomId] = "occupied"]
  /\ bookings' = IF f = 3 THEN bookings
                 ELSE [bookings EXCEPT ![selectedBooking[t].id].room_id = newRoomId]
  /\ modal' = [modal EXCEPT ![t] = "none"]
  /\ selectedBooking' = [selectedBooking EXCEPT ![t] = NoBooking]
  /\ availableRooms' = [availableRooms EXCEPT ![t] = {}]
  /\ failures' = IF f = 0 THEN failures ELSE failures + 1
  /\ UNCHANGED <<guests, reservations, folio_charges, payments, guest_documents,
                 tax_config, today, page, pc, selectedGuest, selectedReservation, taxes,
                 folioCharges, pagePayments, checkoutPaymentData, loc, inHouseBookings,
                 auditComplete, auditLog>>

\* --------------------------------------------------- Dashboard and Settings
\* Dashboard.updateRoomStatus (also behind markRoomClean): any room, any status
updateRoomStatus(t, roomId, newStatus, ok) ==
  /\ page[t] = "dashboard" /\ pc[t] = "idle"
  /\ newStatus \in RoomStatuses /\ newStatus # rooms[roomId]
  /\ ok \in Outcomes
  /\ rooms' = IF ok THEN [rooms EXCEPT ![roomId] = newStatus] ELSE rooms
  /\ failures' = Failed(ok)
  /\ UNCHANGED <<guests, reservations, bookings, folio_charges, payments, guest_documents,
                 tax_config, today, uiVars, auditLog>>

\* Settings.handleSaveRoom on an existing room: the form's status is written with the rest
handleSaveRoom(t, roomId, status, ok) ==
  /\ page[t] = "settings" /\ pc[t] = "idle"
  /\ status \in RoomStatuses /\ status # rooms[roomId]
  /\ ok \in Outcomes
  /\ rooms' = IF ok THEN [rooms EXCEPT ![roomId] = status] ELSE rooms
  /\ failures' = Failed(ok)
  /\ UNCHANGED <<guests, reservations, bookings, folio_charges, payments, guest_documents,
                 tax_config, today, uiVars, auditLog>>

\* -------------------------------------------------------- NightAudit page
\* NightAudit.runNightAudit, the loop over inHouseBookings: for a stayover the store is asked
\* for a room_rent row of today and a row is inserted when the answer has none (an answer
\* that is an error has none). Store request number failAt fails. The result is
\* <<folio_charges after the loop, rows inserted, chargesPosted, requests made>>.
RECURSIVE AuditLoop(_, _, _, _, _, _, _)
AuditLoop(list, day, fc, inserted, chargesPosted, requested, failAt) ==
  IF list = <<>> THEN <<fc, inserted, chargesPosted, requested>>
  ELSE LET booking == Head(list)
           stayover == booking.check_in_date < day
           selectFails == stayover /\ requested + 1 = failAt
           existingCharge == IF selectFails THEN <<>> ELSE RoomRentOn(fc, booking.id, day)
           post == stayover /\ Len(existingCharge) = 0
           okInsert == post /\ requested + 2 # failAt
       IN AuditLoop(Tail(list), day,
                    IF okInsert
                    THEN InsertCharge(fc, Charge(booking.id, day, "room_rent",
                                                 BaseRate(RoomType(booking.room_id))))
                    ELSE fc,
                    IF okInsert THEN inserted + 1 ELSE inserted,
                    IF post THEN chargesPosted + 1 ELSE chargesPosted,
                    IF post THEN requested + 2 ELSE IF stayover THEN requested + 1 ELSE requested,
                    failAt)

\* NightAudit.runNightAudit, offered while auditComplete is false
runNightAudit(t, f) ==
  /\ page[t] = "nightaudit" /\ pc[t] = "idle"
  /\ ~auditComplete[t]
  /\ Len(auditLog) < MaxAuditRuns
  /\ Len(folio_charges) + Len(inHouseBookings[t]) <= MaxCharges
  /\ f \in 0..(2 * MaxBookings) /\ (f # 0 => CanFail)
  /\ LET res == AuditLoop(inHouseBookings[t], today, folio_charges, 0, 0, 0, f)
     IN /\ f <= res[4]
        /\ folio_charges' = res[1]
        /\ auditLog' = Append(auditLog, [inserted |-> res[2], chargesPosted |-> res[3]])
  /\ auditComplete' = [auditComplete EXCEPT ![t] = TRUE]
  /\ failures' = IF f = 0 THEN failures ELSE failures + 1
  /\ UNCHANGED <<rooms, guests, reservations, bookings, payments, guest_documents,
                 tax_config, today, page, modal, pc, selectedGuest, selectedReservation,
                 availableRooms, selectedBooking, taxes, folioCharges, pagePayments,
                 checkoutPaymentData, loc, inHouseBookings>>

\* NightAudit.runNightAudit request by request, so that the audits of two terminals
\* interleave. The click: the loop starts over the list the page holds
runNightAuditClick(t) ==
  /\ page[t] = "nightaudit" /\ pc[t] = "idle"
  /\ ~auditComplete[t]
  /\ Len(auditLog) + Cardinality({u \in Terminals : pc[u] \in {"na_select", "na_insert"}}) < MaxAuditRuns
  /\ pc' = [pc EXCEPT ![t] = "na_select"]
  /\ loc' = [loc EXCEPT ![t].auditList = inHouseBookings[t], ![t].chargesPosted = 0,
                        ![t].inserted = 0]
  /\ UNCHANGED <<storeVars, today, failures, page, modal, selectedGuest, selectedReservation,
                 availableRooms, selectedBooking, taxes, folioCharges, pagePayments,
                 checkoutPaymentData, inHouseBookings, auditComplete, auditLog>>

\* runNightAudit, one turn of the loop up to its select: a same-day check-in is skipped, for a
\* stayover the store is asked for a room_rent row of today; no row in the answer (or an
\* error) leads to the insert
runNightAuditSelect(t, ok) ==
  /\ pc[t] = "na_select" /\ loc[t].auditList # <<>>
  /\ LET booking == Head(loc[t].auditList)
         stayover == booking.check_in_date < today
         existingCharge == IF ok THEN RoomRentOn(folio_charges, booking.id, today) ELSE <<>>
     IN /\ ok \in (IF stayover THEN Outcomes ELSE {TRUE})
        /\ IF stayover /\ Len(existingCharge) = 0
           THEN /\ pc' = [pc EXCEPT ![t] = "na_insert"]
                /\ loc' = loc
           ELSE /\ pc' = pc
                /\ loc' = [loc EXCEPT ![t].auditList = Tail(@)]
  /\ failures' = Failed(ok)
  /\ UNCHANGED <<storeVars, today, page, modal, selectedGuest, selectedReservation,
                 availableRooms, selectedBooking, taxes, folioCharges, pagePayments,
                 checkoutPaymentData, inHouseBookings, auditComplete, auditLog>>

\* runNightAudit, the insert of the room_rent row of today; its error is not looked at
runNightAuditInsert(t, ok) ==
  /\ pc[t] = "na_insert"
  /\ ok \in Outcomes
  /\ Len(folio_charges) < MaxCharges
  /\ LET booking == Head(loc[t].auditList)
     IN folio_charges' = IF ok
                         THEN InsertCharge(folio_charges,
                                Charge(booking.id, today, "room_rent",
                                       BaseRate(RoomType(booking.room_id))))
                         ELSE folio_charges
  /\ loc' = [loc EXCEPT ![t].auditList = Tail(@), ![t].chargesPosted = @ + 1,
                        ![t].inserted = IF ok THEN @ + 1 ELSE @]
  /\ pc' = [pc EXCEPT ![t] = "na_select"]
  /\ failures' = Failed(ok)
  /\ UNCHANGED <<rooms, guests, reservations, bookings, payments, guest_documents,
                 tax_config, today, page, modal, selectedGuest, selectedReservation,
                 availableRooms, selectedBooking, taxes, folioCharges, pagePayments,
                 checkoutPaymentData, inHouseBookings, auditComplete, auditLog>>

\* runNightAudit after the loop: the results are shown and the audit is marked complete
runNightAuditDone(t) ==
  /\ pc[t] = "na_select" /\ loc[t].auditList = <<>>
  /\ auditLog' = Append(auditLog, [inserted |-> loc[t].inserted,
                                   chargesPosted |-> loc[t].chargesPosted])
  /\ auditComplete' = [auditComplete EXCEPT ![t] = TRUE]
  /\ pc' = [pc EXCEPT ![t] = "idle"]
  /\ loc' = [loc EXCEPT ![t] = NoLoc]
  /\ UNCHANGED <<storeVars, today, failures, page, modal, selectedGuest, selectedReservation,
                 availableRooms, selectedBooking, taxes, folioCharges, pagePayments,
                 checkoutPaymentData, inHouseBookings>>

\* ------------------------------------------------------------------- Next
Next ==
  \/ AdvanceDay
  \/ \E name \in {"CGST", "SGST"}, pct \in TaxPercentages : ChangeTaxConfig(name, pct)
  \/ \E t \in Terminals, p \in Pages : Navigate(t, p)
  \/ \E t \in Terminals, m \in Mobiles, rt \in {"Standard", "Deluxe"},
        cin \in 1..MaxDay, cout \in 1..(MaxDay + 1), f \in 0..2 :
        handleNewReservation(t, m, rt, cin, cout, f)
  \/ \E t \in Terminals, g \in 1..Len(guests) : handleSelectGuest(t, g)
  \/ \E t \in Terminals, r \in 0..Len(reservations) : handleInitiateCheckin(t, r)
  \/ \E t \in Terminals, r \in Rooms, d \in 1..(MaxDay + 1), a \in PaymentAmounts,
        f \in 0..(5 + MaxDay) : handleCheckin(t, r, d, a, "ID", f)
  \/ \E t \in Terminals : loadData(t)
  \/ \E t \in Terminals, r \in 1..Len(reservations) : initiateCheckIn(t, r)
  \/ \E t \in Terminals, r \in Rooms, f \in 0..4 : processCheckIn(t, r, f)
  \/ \E t \in Terminals, m \in Mobiles, r \in Rooms, n \in 1..2, a \in PaymentAmounts,
        f \in 0..6 : processWalkIn(t, m, r, n, a, f)
  \/ \E t \in Terminals, b \in 1..Len(bookings) : handleViewFolio(t, b)
  \/ \E t \in Terminals, ty \in ManualChargeTypes, a \in ManualAmounts, ok \in BOOLEAN :
        handleAddCharge(t, today, ty, a, ok)
  \/ \E t \in Terminals : useFolioSync(t)
  \/ \E t \in Terminals, a \in PaymentAmounts : handleCheckout(t, a)
  \/ \E t \in Terminals, ok \in BOOLEAN : confirmCheckout(t, ok)
  \/ \E t \in Terminals, ok \in BOOLEAN : coLoadCharges(t, ok)
  \/ \E t \in Terminals, ok \in BOOLEAN : coLoadPayments(t, ok)
  \/ \E t \in Terminals, ok \in BOOLEAN : coLoadBooking(t, ok)
  \/ \E t \in Terminals, ok \in BOOLEAN : coArchiveInvoice(t, ok)
  \/ \E t \in Terminals, ok \in BOOLEAN : coArchiveGRC(t, ok)
  \/ \E t \in Terminals, ok \in BOOLEAN : coUpdateBooking(t, ok)
  \/ \E t \in Terminals, ok \in BOOLEAN : coUpdateRoom(t, ok)
  \/ \E t \in Terminals, d \in 1..(MaxDay + 1), f \in 0..(MaxDay + 1) : handleExtendStay(t, d, f)
  \/ \E t \in Terminals : loadAvailableRooms(t)
  \/ \E t \in Terminals, r \in Rooms, f \in 0..3 : handleRoomChange(t, r, f)
  \/ \E t \in Terminals, r \in Rooms, st \in RoomStatuses, ok \in BOOLEAN :
        updateRoomStatus(t, r, st, ok)
  \/ \E t \in Terminals, r \in Rooms, st \in RoomStatuses, ok \in BOOLEAN :
        handleSaveRoom(t, r, st, ok)
  \/ \E t \in Terminals, f \in 0..(2 * MaxBookings) : runNightAudit(t, f)
  \/ \E t \in Terminals, m \in Mobiles, ok \in BOOLEAN : handleNewReservationLookup(t, m, ok)
  \/ \E t \in Terminals, rt \in {"Standard", "Deluxe"}, cin \in 1..MaxDay,
        cout \in 1..(MaxDay + 1), f \in 0..2 : handleNewReservationInsert(t, rt, cin, cout, f)
  \/ \E t \in Terminals, m \in Mobiles, ok \in BOOLEAN : handleCreateReservationLookup(t, m, ok)
  \/ \E t \in Terminals, r \in Rooms, d \in 1..MaxDay, n \in 1..2, f \in 0..2 :
        handleCreateReservationInsert(t, r, d, n, f)
  \/ \E t \in Terminals, r \in 1..Len(reservations), ok \in BOOLEAN :
        handleCancelReservation(t, r, ok)
  \/ \E t \in Terminals, m \in Mobiles, ok \in BOOLEAN : processWalkInLookup(t, m, ok)
  \/ \E t \in Terminals, r \in Rooms, n \in 1..2, a \in PaymentAmounts, f \in 0..6 :
        processWalkInInsert(t, r, n, a, f)
  \/ \E t \in Terminals : runNightAuditClick(t)
  \/ \E t \in Terminals, ok \in BOOLEAN : runNightAuditSelect(t, ok)
  \/ \E t \in Terminals, ok \in BOOLEAN : runNightAuditInsert(t, ok)
  \/ \E t \in Terminals : runNightAuditDone(t)

Spec == Init /\ [][Next]_vars

\* ------------------------------------------------- the checkout desk
\* one stay from the reservation to the checkout: terminal 1 takes the reservation,
\* checks the guest in on the Guests page, works the folio and the checkout of that stay
\* on the InHouse page, while a manager may change the CGST rate; after the checkout the
\* guest may come back and be checked in again
NextCheckout ==
  \/ \E pct \in TaxPercentages \ {0} : ChangeTaxConfig("CGST", pct)
  \/ \E p \in {"reservations", "guests", "inhouse"} : Navigate(1, p)
  \/ \E f \in 0..2 : bookings = <<>> /\ handleNewReservation(1, "m1", "Standard", 1, 3, f)
  \/ \E g \in 1..Len(guests) : handleSelectGuest(1, g)
  \/ \E r \in 0..Len(reservations) : handleInitiateCheckin(1, r)
  \/ \E r \in Rooms, d \in 1..(MaxDay + 1), f \in 0..(5 + MaxDay) :
        /\ bookings = <<>> \/ (CheckedIn = {} /\ d = today /\ f <= 1)
        /\ handleCheckin(1, r, d, 0, "ID", f)
  \/ bookings # <<>> /\ handleViewFolio(1, 1)
  \/ \E ty \in ManualChargeTypes, a \in {x \in ManualAmounts : x > 0}, ok \in BOOLEAN :
        handleAddCharge(1, today, ty, a, ok)
  \/ useFolioSync(1)
  \/ \E a \in PaymentAmounts : handleCheckout(1, a)
  \/ \E ok \in BOOLEAN : confirmCheckout(1, ok)
  \/ \E ok \in BOOLEAN : coLoadCharges(1, ok)
  \/ \E ok \in BOOLEAN : coLoadPayments(1, ok)
  \/ \E ok \in BOOLEAN : coLoadBooking(1, ok)
  \/ \E ok \in BOOLEAN : coArchiveInvoice(1, ok)
  \/ \E ok \in BOOLEAN : coArchiveGRC(1, ok)
  \/ \E ok \in BOOLEAN : coUpdateBooking(1, ok)
  \/ \E ok \in BOOLEAN : coUpdateRoom(1, ok)

SpecCheckout == Init /\ [][NextCheckout]_vars

\* ------------------------------------------------- the folio totals
\* the totals of every folio: a guest is in house in room 101 with any folio of up to
\* two charges and up to one payment, under any active CGST and SGST percentages;
\* terminal 1 opens the folio on the InHouse page, may post one more charge and checks out
FolioRows == {Charge(1, 1, "room_rent", 150000), Charge(1, 2, "room_rent", 150000),
              Charge(1, 1, "miscellaneous", 12345)}
Folios == UNION {[1..n -> FolioRows] : n \in 0..2}
PaymentLists == {<<>>, <<Payment(1, 100000, 1)>>}

InitTotals ==
  /\ rooms = [r \in Rooms |-> IF r = 101 THEN "occupied" ELSE "vacant_clean"]
  /\ guests = <<[mobile |-> "m1", id_proof_number |-> "ID"]>>
  /\ reservations = <<>>
  /\ bookings = <<[reservation_id |-> 0, guest_id |-> 1, room_id |-> 101,
                   check_in_date |-> 1, expected_check_out_date |-> 3,
                   actual_check_out_date |-> 0, status |-> "checked_in"]>>
  /\ folio_charges \in Folios
  /\ payments \in PaymentLists
  /\ guest_documents = <<>>
  /\ tax_config \in {[CGST |-> [tax_percentage |-> c, is_active |-> TRUE],
                      SGST |-> [tax_percentage |-> g, is_active |-> TRUE]] :
                     c \in TaxPercentages, g \in TaxPercentages}
  /\ today = 1
  /\ failures = 0
  /\ page = [t \in Terminals |-> "dashboard"]
  /\ modal = [t \in Terminals |-> "none"]
  /\ pc = [t \in Terminals |-> "idle"]
  /\ selectedGuest = [t \in Terminals |-> 0]
  /\ selectedReservation = [t \in Terminals |-> 0]
  /\ availableRooms = [t \in Terminals |-> {}]
  /\ selectedBooking = [t \in Terminals |-> NoBooking]
  /\ taxes = [t \in Terminals |-> DefaultTaxes]
  /\ folioCharges = [t \in Terminals |-> <<>>]
  /\ pagePayments = [t \in Terminals |-> <<>>]
  /\ checkoutPaymentData = [t \in Terminals |-> -1]
  /\ loc = [t \in Terminals |-> NoLoc]
  /\ inHouseBookings = [t \in Terminals |-> <<>>]
  /\ auditComplete = [t \in Terminals |-> FALSE]
  /\ auditLog = <<>>

NextTotals ==
  \/ Navigate(1, "inhouse")
  \/ handleViewFolio(1, 1)
  \/ \E ok \in BOOLEAN : handleAddCharge(1, today, "miscellaneous", 12345, ok)
  \/ useFolioSync(1)
  \/ \E a \in PaymentAmounts : handleCheckout(1, a)
  \/ \E ok \in BOOLEAN : confirmCheckout(1, ok)
  \/ \E ok \in BOOLEAN : coLoadCharges(1, ok)
  \/ \E ok \in BOOLEAN : coLoadPayments(1, ok)
  \/ \E ok \in BOOLEAN : coLoadBooking(1, ok)
  \/ \E ok \in BOOLEAN : coArchiveInvoice(1, ok)
  \/ \E ok \in BOOLEAN : coArchiveGRC(1, ok)
  \/ \E ok \in BOOLEAN : coUpdateBooking(1, ok)
  \/ \E ok \in BOOLEAN : coUpdateRoom(1, ok)

SpecTotals == InitTotals /\ [][NextTotals]_vars

\* ------------------------------------------------- the folio of a stay
\* one stay over several days: terminal 1 takes the reservation, checks the guest in on
\* the Guests page, posts charges and extends the stay on the InHouse page and runs the
\* night audit, while the days pass
NextFolio ==
  \/ AdvanceDay
  \/ \E p \in {"reservations", "guests", "inhouse", "nightaudit"} : Navigate(1, p)
  \/ \E f \in 0..2 : bookings = <<>> /\ handleNewReservation(1, "m1", "Standard", 1, 2, f)
  \/ \E g \in 1..Len(guests) : handleSelectGuest(1, g)
  \/ \E r \in 0..Len(reservations) : handleInitiateCheckin(1, r)
  \/ \E r \in Rooms, d \in 1..(MaxDay + 1), f \in 0..(5 + MaxDay) :
        bookings = <<>> /\ handleCheckin(1, r, d, 0, "ID", f)
  \/ \E b \in 1..Len(bookings) : handleViewFolio(1, b)
  \/ \E ty \in ManualChargeTypes, a \in {x \in ManualAmounts : x > 0}, ok \in BOOLEAN :
        handleAddCharge(1, today, ty, a, ok)
  \/ \E d \in 1..(MaxDay + 1), f \in 0..(MaxDay + 1) : handleExtendStay(1, d, f)
  \/ \E f \in 0..(2 * MaxBookings) : runNightAudit(1, f)

SpecFolio == Init /\ [][NextFolio]_vars

\* ------------------------------------------------- the guests
\* two terminals create reservations on the Reservations page and the tape chart and check
\* walk-ins in, each handler split at its guest lookup so that the lookups and inserts of
\* two handlers interleave
NextGuests ==
  \/ \E t \in Terminals, p \in {"reservations", "tapechart", "checkin"} : Navigate(t, p)
  \/ \E t \in Terminals, m \in Mobiles, ok \in BOOLEAN : handleNewReservationLookup(t, m, ok)
  \/ \E t \in Terminals, f \in 0..2 : handleNewReservationInsert(t, "Standard", today, today + 1, f)
  \/ \E t \in Terminals, m \in Mobiles, ok \in BOOLEAN : handleCreateReservationLookup(t, m, ok)
  \/ \E t \in Terminals, r \in Rooms, f \in 0..2 : handleCreateReservationInsert(t, r, today, 1, f)
  \/ \E t \in Terminals, m \in Mobiles, ok \in BOOLEAN : processWalkInLookup(t, m, ok)
  \/ \E t \in Terminals, r \in Rooms, f \in {0} \cup 2..6 : processWalkInInsert(t, r, 1, 0, f)

SpecGuests == Init /\ [][NextGuests]_vars

\* ------------------------------------------------- the pages
\* a manager (terminal 1) and a staff member (terminal 2) change the URL hash to any page
\* and set room statuses on the Dashboard and in the room form of Settings
NextPages ==
  \/ \E t \in Terminals, p \in Pages : Navigate(t, p)
  \/ \E t \in Terminals, r \in Rooms, st \in RoomStatuses : updateRoomStatus(t, r, st, TRUE)
  \/ \E t \in Terminals, r \in Rooms, st \in RoomStatuses : handleSaveRoom(t, r, st, TRUE)

SpecPages == Init /\ [][NextPages]_vars

\* ------------------------------- scenario: a folio left open during a checkout
\* terminal 1 checks a walk-in in and out; terminal 2 keeps the folio of the same booking
\* open on its InHouse page, posts a charge or extends the stay, and runs the night audit
\* from the list its NightAudit page loaded; no store request fails
NextStaleFolio ==
  \/ today < 2 /\ AdvanceDay
  \/ \E p \in {"checkin", "inhouse"} : Navigate(1, p)
  \/ \E p \in {"inhouse", "nightaudit"} : Navigate(2, p)
  \/ \E r \in Rooms : bookings = <<>> /\ processWalkIn(1, "m1", r, 1, 0, 0)
  \/ \E t \in Terminals, b \in 1..Len(bookings) : handleViewFolio(t, b)
  \/ useFolioSync(2)
  \/ handleAddCharge(2, today, "miscellaneous", 12345, TRUE)
  \/ \E d \in 1..(MaxDay + 1) : handleExtendStay(2, d, 0)
  \/ runNightAudit(2, 0)
  \/ \E a \in PaymentAmounts : handleCheckout(1, a)
  \/ confirmCheckout(1, TRUE)
  \/ coLoadCharges(1, TRUE)
  \/ coLoadPayments(1, TRUE)
  \/ coLoadBooking(1, TRUE)
  \/ coArchiveInvoice(1, TRUE)
  \/ coArchiveGRC(1, TRUE)
  \/ coUpdateBooking(1, TRUE)
  \/ coUpdateRoom(1, TRUE)

SpecStaleFolio == Init /\ [][NextStaleFolio]_vars

\* ------------------------------------- scenario: two night audits of one day
\* terminal 1 checks walk-ins in on day 1; on day 2 both terminals run the night audit,
\* request by request; no store request fails
NextAudit ==
  \/ today < 2 /\ (\A t \in Terminals : pc[t] = "idle") /\ AdvanceDay
  \/ Navigate(1, "checkin")
  \/ \E t \in Terminals : Navigate(t, "nightaudit")
  \/ \E r \in Rooms : today = 1 /\ bookings = <<>> /\ processWalkIn(1, "m1", r, 2, 0, 0)
  \/ \E t \in Terminals : runNightAuditClick(t)
  \/ \E t \in Terminals : runNightAuditSelect(t, TRUE)
  \/ \E t \in Terminals : runNightAuditInsert(t, TRUE)
  \/ \E t \in Terminals : runNightAuditDone(t)

SpecAudit == Init /\ [][NextAudit]_vars

\* ----------------------------- scenario: a cancellation during a check-in
\* terminal 1 takes a reservation and cancels it on the Reservations page while terminal 2
\* checks the guest in from it on the CheckIn page or the Guests page; no request fails
NextCancel ==
  \/ Navigate(1, "reservations")
  \/ \E p \in {"checkin", "guests"} : Navigate(2, p)
  \/ \E m \in Mobiles : handleNewReservation(1, m, "Standard", 1, 2, 0)
  \/ \E r \in 1..Len(reservations) : handleCancelReservation(1, r, TRUE)
  \/ \E r \in 1..Len(reservations) : initiateCheckIn(2, r)
  \/ \E r \in Rooms : processCheckIn(2, r, 0)
  \/ \E g \in 1..Len(guests) : handleSelectGuest(2, g)
  \/ \E r \in 0..Len(reservations) : handleInitiateCheckin(2, r)
  \/ \E r \in Rooms, d \in 1..2 : handleCheckin(2, r, d, 0, "ID", 0)

SpecCancel == Init /\ [][NextCancel]_vars

\* ------------------------------------------------- the rooms
\* two terminals check guests in: walk-ins and a reservation on the CheckIn page, a guest
\* of the guest list on the Guests page; terminal 1 also checks out on the InHouse page
NextRooms ==
  \/ \E t \in Terminals, p \in {"checkin", "guests"} : Navigate(t, p)
  \/ \E p \in {"reservations", "inhouse"} : Navigate(1, p)
  \/ \E t \in Terminals : loadData(t)
  \/ \E f \in 0..2 : handleNewReservation(1, "m1", "Standard", 1, 2, f)
  \/ \E t \in Terminals, r \in 1..Len(reservations) : initiateCheckIn(t, r)
  \/ \E t \in Terminals, r \in Rooms, f \in 0..4 : processCheckIn(t, r, f)
  \/ \E t \in Terminals, r \in Rooms, f \in 0..6 : processWalkIn(t, "m2", r, 1, 0, f)
  \/ \E t \in Terminals, g \in 1..Len(guests) : handleSelectGuest(t, g)
  \/ \E t \in Terminals : handleInitiateCheckin(t, 0)
  \/ \E t \in Terminals, r \in Rooms, f \in 0..3 : handleCheckin(t, r, today, 0, "ID", f)
  \/ \E b \in 1..Len(bookings) : handleViewFolio(1, b)
  \/ handleCheckout(1, 0)
  \/ confirmCheckout(1, TRUE)
  \/ coLoadCharges(1, TRUE)
  \/ coLoadPayments(1, TRUE)
  \/ coLoadBooking(1, TRUE)
  \/ coArchiveInvoice(1, TRUE)
  \/ coArchiveGRC(1, TRUE)
  \/ coUpdateBooking(1, TRUE)
  \/ coUpdateRoom(1, TRUE)

SpecRooms == Init /\ [][NextRooms]_vars

\* ------------------------------------------------- the room statuses
\* one terminal through every operation that writes a room status: walk-in check-in,
\* room change and checkout, the status buttons of the Dashboard, the room form of Settings
NextRoomStatus ==
  \/ \E p \in {"checkin", "inhouse", "dashboard", "settings"} : Navigate(1, p)
  \/ \E r \in Rooms, f \in 0..6 : processWalkIn(1, "m1", r, 1, 0, f)
  \/ \E b \in 1..Len(bookings) : handleViewFolio(1, b)
  \/ loadAvailableRooms(1)
  \/ \E r \in Rooms, f \in 0..3 : handleRoomChange(1, r, f)
  \/ handleCheckout(1, 0)
  \/ confirmCheckout(1, TRUE)
  \/ \E ok \in BOOLEAN : coLoadCharges(1, ok)
  \/ \E ok \in BOOLEAN : coLoadPayments(1, ok)
  \/ \E ok \in BOOLEAN : coLoadBooking(1, ok)
  \/ \E ok \in BOOLEAN : coArchiveInvoice(1, ok)
  \/ \E ok \in BOOLEAN : coArchiveGRC(1, ok)
  \/ \E ok \in BOOLEAN : coUpdateBooking(1, ok)
  \/ \E ok \in BOOLEAN : coUpdateRoom(1, ok)
  \/ \E r \in Rooms, st \in RoomStatuses, ok \in BOOLEAN : updateRoomStatus(1, r, st, ok)
  \/ \E r \in Rooms, st \in RoomStatuses, ok \in BOOLEAN : handleSaveRoom(1, r, st, ok)

SpecRoomStatus == Init /\ [][NextRoomStatus]_vars

\* ------------------------------------------------- scenario: the ledger
\* every operation that posts to folio_charges or payments, on one terminal: check-in from
\* the Guests and CheckIn pages, manual charges, extend stay, room change, checkout and
\* the night audit
NextLedger ==
  \/ today < 2 /\ AdvanceDay
  \/ \E p \in {"reservations", "guests", "checkin", "inhouse", "nightaudit"} : Navigate(1, p)
  \/ bookings = <<>> /\ handleNewReservation(1, "m1", "Standard", 1, 2, 0)
  \/ \E g \in 1..Len(guests) : handleSelectGuest(1, g)
  \/ \E r \in 0..Len(reservations) : handleInitiateCheckin(1, r)
  \/ \E r \in Rooms, d \in 1..(MaxDay + 1) :
        bookings = <<>> /\ handleCheckin(1, r, d, 0, "ID", 0)
  \/ \E r \in 1..Len(reservations) : initiateCheckIn(1, r)
  \/ \E r \in Rooms : bookings = <<>> /\ processCheckIn(1, r, 0)
  \/ \E b \in 1..Len(bookings) : handleViewFolio(1, b)
  \/ \E a \in ManualAmounts : handleAddCharge(1, today, "miscellaneous", a, TRUE)
  \/ \E d \in 1..(MaxDay + 1) : handleExtendStay(1, d, 0)
  \/ loadAvailableRooms(1)
  \/ \E r \in Rooms : handleRoomChange(1, r, 0)
  \/ \E a \in PaymentAmounts : handleCheckout(1, a)
  \/ confirmCheckout(1, TRUE)
  \/ coLoadCharges(1, TRUE)
  \/ coLoadPayments(1, TRUE)
  \/ coLoadBooking(1, TRUE)
  \/ coArchiveInvoice(1, TRUE)
  \/ coArchiveGRC(1, TRUE)
  \/ coUpdateBooking(1, TRUE)
  \/ coUpdateRoom(1, TRUE)
  \/ runNightAudit(1, 0)

SpecLedger == Init /\ [][NextLedger]_vars

\* --------------------------------------- scenario: room change during checkout
\* terminal 1 checks a guest in and out, terminal 2 changes the room of the booking from
\* its own InHouse page; no store request fails
NextStaleRoom ==
  \/ \E p \in {"checkin", "inhouse"} : Navigate(1, p)
  \/ \E p \in {"inhouse", "dashboard"} : Navigate(2, p)
  \/ \E r \in Rooms, n \in 1..2 : processWalkIn(1, "m1", r, n, 0, 0)
  \/ \E t \in Terminals, b \in 1..Len(bookings) : handleViewFolio(t, b)
  \/ loadAvailableRooms(2)
  \/ \E r \in Rooms : handleRoomChange(2, r, 0)
  \/ \E a \in PaymentAmounts : handleCheckout(1, a)
  \/ confirmCheckout(1, TRUE)
  \/ coLoadCharges(1, TRUE)
  \/ coLoadPayments(1, TRUE)
  \/ coLoadBooking(1, TRUE)
  \/ coArchiveInvoice(1, TRUE)
  \/ coArchiveGRC(1, TRUE)
  \/ coUpdateBooking(1, TRUE)
  \/ coUpdateRoom(1, TRUE)

SpecStaleRoom == Init /\ [][NextStaleRoom]_vars

\* ------------------------------------------------------------- properties
\* C1: a booking has status checked_out only if an invoice document and a grc document
\* were persisted for it beforehand; when archiveInvoice or archiveGRC fails during
\* confirmCheckout the booking stays checked_in.
C1_CheckedOutOnlyIfArchived ==
  \A b \in BookingIds :
    bookings[b].status = "checked_out" =>
      /\ Len(DocsOf(b, "invoice")) > 0
      /\ Len(DocsOf(b, "grc")) > 0

\* C2: the night audit run twice on the same day, one run after the other, posts each
\* qualifying booking's room_rent charge of that day exactly once: when the second run
\* of a day ends, every checked-in booking whose check-in date precedes the day has exactly
\* one room_rent charge dated that day, and the second run has inserted no row.
C2_AuditTwiceOnce ==
  [][(Len(auditLog) = 1 /\ Len(auditLog') = 2) =>
       /\ auditLog'[2].inserted = 0
       /\ \A b \in 1..Len(bookings') :
            (bookings'[b].status = "checked_in" /\ bookings'[b].check_in_date < today')
            => Len(RoomRentOn(folio_charges', b, today')) = 1]_vars

\* C3: room rent is posted once per stay-night: for every booking and every date there is
\* at most one folio charge of type room_rent with that charge_date.
C3_OneRoomRentPerNight ==
  \A b \in BookingIds, d \in 1..(MaxDay + 1) : Len(RoomRentOn(folio_charges, b, d)) <= 1

\* C4: in every state reached after a completed operation (check-in, checkout, room
\* change, status update on the dashboard, room edit in settings) a room has status
\* occupied if and only if exactly one booking with status checked_in references it.
C4_OccupiedIffOneCheckedIn ==
  (\A t \in Terminals : pc[t] = "idle") =>
    \A r \in Rooms :
      rooms[r] = "occupied" <=> Cardinality({b \in CheckedIn : bookings[b].room_id = r}) = 1

\* C5: zero double room allocation: under every interleaving of check-ins from two
\* terminals that chose the same room from their loaded lists of vacant rooms, no two
\* bookings with status checked_in reference the same room.
C5_NoDoubleAllocation ==
  \A a, b \in CheckedIn : a # b => bookings[a].room_id # bookings[b].room_id

\* C6: a check-in never targets a room that is not vacant_clean in the store at the moment
\* the booking is inserted, also when the terminal's list of available rooms was loaded
\* before the status of the room changed.
C6_CheckInTargetsVacantClean ==
  [][Len(bookings') > Len(bookings) =>
       rooms[bookings'[Len(bookings')].room_id] = "vacant_clean"]_vars

\* C7: for every list of charges, every list of payments and every pair of rates,
\* calculateFolioTotal and archiveInvoice give subtotal = the sum of the charge amounts,
\* cgst = subtotal * c / 100, sgst = subtotal * s / 100, grandTotal = subtotal + cgst + sgst,
\* totalPaid = the sum of the payment amounts and balance = grandTotal - totalPaid, exactly
\* (nothing is rounded); checked on the folio panel of every terminal with an open folio and
\* on the lists and rates a running checkout hands to archiveInvoice, whose invoice of
\* these lists and rates stores the same totals.
C7_TotalsFormulae ==
  \A t \in Terminals :
    LET Exact(cs, ps, tx, subtotal, cgst, sgst, grandTotal, totalPaid, balance) ==
          /\ subtotal = SumAmounts(cs) * 100
          /\ cgst * 100 = subtotal * tx.cgst
          /\ sgst * 100 = subtotal * tx.sgst
          /\ grandTotal = subtotal + cgst + sgst
          /\ totalPaid = SumAmounts(ps) * 100
          /\ balance = grandTotal - totalPaid
        shown == calculateFolioTotal(folioCharges[t], pagePayments[t], taxes[t])
        archived == InvoiceTotals(loc[t].finalCharges, loc[t].finalPayments, taxes[t])
        invoices == DocsOf(selectedBooking[t].id, "invoice")
    IN /\ selectedBooking[t].id # 0 =>
            Exact(folioCharges[t], pagePayments[t], taxes[t], shown.subtotal, shown.cgstAmount,
                  shown.sgstAmount, shown.grandTotal, shown.totalPayments, shown.balance)
       /\ pc[t] # "idle" =>
            Exact(loc[t].finalCharges, loc[t].finalPayments, taxes[t], archived.subtotal,
                  archived.cgst_amount, archived.sgst_amount, archived.grand_total,
                  archived.total_paid, archived.balance)
       /\ pc[t] # "idle" =>
            \A i \in 1..Len(invoices) :
              (/\ invoices[i].document_data.charges = loc[t].finalCharges
               /\ invoices[i].document_data.payments = loc[t].finalPayments
               /\ invoices[i].document_data.taxes = taxes[t])
                 => invoices[i].document_data.totals = archived

\* the folio of the example: charges 1500.00 and 1500.00, rates 6 and 6, a payment of
\* 1000.00; the panel shows 3000 / 180 / 180 / 3360 / 2360 and the invoice archived from
\* the same lists stores the same totals
C7_Witness ==
  /\ pc[1] = "co_grc"
  /\ taxes[1] = [cgst |-> 6, sgst |-> 6]
  /\ Len(folioCharges[1]) = 2 /\ Len(pagePayments[1]) = 1
  /\ calculateFolioTotal(folioCharges[1], pagePayments[1], taxes[1])
       = [subtotal |-> 30000000, cgstAmount |-> 1800000, sgstAmount |-> 1800000,
          grandTotal |-> 33600000, totalPayments |-> 10000000, balance |-> 23600000]
  /\ Len(guest_documents) = 1
  /\ guest_documents[1].document_data.totals
       = [subtotal |-> 30000000, cgst_amount |-> 1800000, sgst_amount |-> 1800000,
          grand_total |-> 33600000, total_paid |-> 10000000, balance |-> 23600000]

\* C8: when a checkout has closed a booking and the operator entered a final payment
\* greater than 0, that payment is a row of payments for the booking and is in the payment
\* list and in total_paid of the invoice archived by that checkout.
C8_FinalPaymentKept ==
  \A t \in Terminals :
    (/\ pc[t] = "co_update_room"
     /\ bookings[selectedBooking[t].id].status = "checked_out"
     /\ checkoutPaymentData[t] > 0)
    => LET b == selectedBooking[t].id
           invoices == DocsOf(b, "invoice")
       IN /\ \E i \in 1..Len(payments) :
                payments[i].booking_id = b /\ payments[i].amount = checkoutPaymentData[t]
          /\ Len(invoices) > 0
          /\ LET data == invoices[Len(invoices)].document_data
             IN /\ \E i \in 1..Len(data.payments) :
                      data.payments[i].amount = checkoutPaymentData[t]
                /\ data.totals.total_paid >= checkoutPaymentData[t] * 100

\* C9: for every archived document, invoice or grc, the totals recomputed from the
\* charges, payments and tax rates embedded in its document_data are exactly the totals
\* stored in that document_data.
C9_TotalsRecomputable ==
  \A i \in 1..Len(guest_documents) :
    LET data == guest_documents[i].document_data
        subtotal == SumAmounts(data.charges) * 100
        paid == SumAmounts(data.payments) * 100
    IN /\ data.totals.subtotal = subtotal
       /\ data.totals.cgst_amount * 100 = subtotal * data.taxes.cgst
       /\ data.totals.sgst_amount * 100 = subtotal * data.taxes.sgst
       /\ data.totals.grand_total = subtotal + data.totals.cgst_amount + data.totals.sgst_amount
       /\ data.totals.total_paid = paid
       /\ data.totals.balance = data.totals.grand_total - paid
       /\ (guest_documents[i].document_type = "grc" =>
             data.charges = <<>> /\ data.payments = <<>> /\ data.totals.grand_total = 0)

\* an invoice of two room nights and a final payment, with its grc, archived after the
\* CGST rate was changed to 9
C9_Witness ==
  \E i, j \in 1..Len(guest_documents) :
    /\ guest_documents[i].document_type = "invoice"
    /\ guest_documents[j].document_type = "grc"
    /\ Len(guest_documents[i].document_data.charges) = 2
    /\ Len(guest_documents[i].document_data.payments) = 1
    /\ guest_documents[i].document_data.taxes.cgst = 9
    /\ guest_documents[i].document_data.totals.grand_total = 34500000
    /\ guest_documents[i].document_data.totals.balance = 24500000

\* C10: guest_documents rows are write-once: no step changes or deletes a row that exists,
\* the table only grows and each row keeps its document_html and document_data.
C10_WriteOnce ==
  [][/\ Len(guest_documents') >= Len(guest_documents)
     /\ SubSeq(guest_documents', 1, Len(guest_documents)) = guest_documents]_vars

\* a checkout was retried after its booking update failed: the booking has two invoices
\* of different content, the CGST rate of the store is no longer the archived one, and the
\* guest row was updated by a later check-in
C10_Witness ==
  \E b \in BookingIds :
    /\ Len(DocsOf(b, "invoice")) = 2
    /\ Len(bookings) = 2
    /\ guests[bookings[b].guest_id].id_proof_number
         # DocsOf(b, "invoice")[1].document_data.guest.id_proof_number
    /\ DocsOf(b, "invoice")[1].document_data # DocsOf(b, "invoice")[2].document_data
    /\ DocsOf(b, "invoice")[1].document_html # DocsOf(b, "invoice")[2].document_html
    /\ tax_config.CGST.tax_percentage # DocsOf(b, "invoice")[1].document_data.taxes.cgst

\* C11: every booking has at most one archived invoice and at most one archived grc,
\* whatever sequence of checkout attempts was made on it (a retry after a failed attempt
\* included).
C11_OneDocumentPerBooking ==
  \A b \in BookingIds :
    Len(DocsOf(b, "invoice")) <= 1 /\ Len(DocsOf(b, "grc")) <= 1

\* C12: the invoice a checkout archives embeds, and computes its totals with, the CGST and
\* SGST percentages that were active in the store when the checkout was confirmed, for
\* every configured percentage (0 included) and also when tax_config changed after the
\* InHouse page was loaded.
C12_ArchivedRatesAreActiveRates ==
  [][\A t \in Terminals :
       (pc[t] = "co_invoice" /\ Len(guest_documents') > Len(guest_documents)) =>
         LET data == guest_documents'[Len(guest_documents')].document_data
         IN /\ data.taxes = loc[t].ratesAtConfirm
            /\ data.totals = InvoiceTotals(loc[t].finalCharges, loc[t].finalPayments,
                                           loc[t].ratesAtConfirm)]_vars

\* C13: a run of the night audit inserts, for every booking that is checked_in in the store
\* and was checked in before today, one room_rent charge dated today at the base rate of
\* the room's type when the folio has no room_rent charge of today, and nothing when it
\* has one; it inserts nothing for bookings checked in today and for bookings that are
\* not checked_in.
C13_AuditPostsIffMissing ==
  [][Len(auditLog') = Len(auditLog) + 1 =>
       LET added == SubSeq(folio_charges', Len(folio_charges) + 1, Len(folio_charges'))
       IN /\ SubSeq(folio_charges', 1, Len(folio_charges)) = folio_charges
          /\ \A i \in 1..Len(added) : added[i].booking_id \in BookingIds
          /\ \A b \in BookingIds :
                ChargesOf(added, b) =
                  IF /\ bookings[b].status = "checked_in"
                     /\ bookings[b].check_in_date < today
                     /\ RoomRentOn(folio_charges, b, today) = <<>>
                  THEN <<Charge(b, today, "room_rent", BaseRate(RoomType(bookings[b].room_id)))>>
                  ELSE <<>>]_vars

\* C14: in every run of confirmCheckout the steps take effect in the required order and
\* none starts before the one before it has finished: the invoice is archived only after
\* the final payment was inserted, the grc only after the invoice was archived, the
\* booking is set to checked_out only after the grc was archived, and the room is set to
\* vacant_dirty only after the booking was set to checked_out.
C14_CheckoutStepOrder ==
  [][\A t \in Terminals :
       /\ pc'[t] # pc[t] =>
            <<pc[t], pc'[t]>> \in {<<"idle", "co_charges">>, <<"co_charges", "co_payments">>,
                                   <<"co_payments", "co_booking">>, <<"co_booking", "co_invoice">>,
                                   <<"co_invoice", "co_grc">>, <<"co_grc", "co_update_booking">>,
                                   <<"co_update_booking", "co_update_room">>,
                                   <<"co_update_room", "idle">>}
       /\ (pc[t] = "co_invoice" /\ Len(guest_documents') > Len(guest_documents)) =>
            (checkoutPaymentData[t] > 0 => "payments.insert" \notin loc[t].failed)
       /\ (pc[t] = "co_grc" /\ Len(guest_documents') > Len(guest_documents)) =>
            "archiveInvoice" \notin loc[t].failed
       /\ (pc[t] = "co_update_booking" /\ failures' = failures) =>
            loc[t].failed \cap {"bookings.select", "archiveGRC"} = {}
       /\ (pc[t] = "co_update_room" /\ pc'[t] = "idle" /\ failures' = failures) =>
            "bookings.update" \notin loc[t].failed]_vars

\* C15: when confirmCheckout reports success (its last step, after the rooms update), the
\* booking is checked_out in the store with an actual check-out date, written together
\* with the operator's id, and the room the booking references in the store is
\* vacant_dirty, also when another terminal changed the booking's room meanwhile.
C15_SuccessMeansClosed ==
  [][\A t \in Terminals :
       (pc[t] = "co_update_room" /\ pc'[t] = "idle") =>
         LET b == selectedBooking[t].id
         IN /\ bookings'[b].status = "checked_out"
            /\ bookings'[b].actual_check_out_date # 0
            /\ rooms'[bookings'[b].room_id] = "vacant_dirty"]_vars

\* C16: a run of confirmCheckout in which no request fails, a retry after a failed status
\* update included, ends with the booking checked_out, its room vacant_dirty and the
\* archived documents of one successful checkout: one invoice and one grc.
C16_RetryIdempotent ==
  [][\A t \in Terminals :
       (/\ pc[t] = "co_update_room" /\ pc'[t] = "idle"
        /\ loc[t].failed = {} /\ failures' = failures) =>
         LET b == selectedBooking[t].id
         IN /\ bookings'[b].status = "checked_out"
            /\ rooms'[selectedBooking[t].room_id] = "vacant_dirty"
            /\ Len(SelectSeq(guest_documents', LAMBDA d :
                      d.booking_id = b /\ d.document_type = "invoice")) = 1
            /\ Len(SelectSeq(guest_documents', LAMBDA d :
                      d.booking_id = b /\ d.document_type = "grc")) = 1]_vars

\* C17: the success message of confirmCheckout is shown only when none of its requests
\* (payment insert, invoice archival, grc archival, booking update, room update) failed;
\* a run with a failed request ends in the error notification instead.
C17_FailuresSurface ==
  [][\A t \in Terminals :
       (pc[t] = "co_update_room" /\ pc'[t] = "idle" /\ modal'[t] = "none") =>
         /\ failures' = failures
         /\ loc[t].failed \cap {"payments.insert", "archiveInvoice", "archiveGRC",
                                 "bookings.update"} = {}]_vars

\* C18: folio_charges and payments are append-only: every step of every operation (check-in,
\* add charge, extend stay, night audit, room change, checkout) leaves the rows that
\* existed before it unchanged and in place; rows are only added after them.
C18_LedgerAppendOnly ==
  [][/\ Len(folio_charges') >= Len(folio_charges)
     /\ SubSeq(folio_charges', 1, Len(folio_charges)) = folio_charges
     /\ Len(payments') >= Len(payments)
     /\ SubSeq(payments', 1, Len(payments)) = payments]_vars

\* a stay whose folio got the room_rent charge of the check-in, the one of the night audit
\* and a manual charge, whose room was changed and which was checked out with a final
\* payment
C18_Witness ==
  /\ Len(folio_charges) >= 3
  /\ \E i, j \in 1..Len(folio_charges) :
        /\ folio_charges[i].charge_type = "room_rent" /\ folio_charges[i].charge_date = 1
        /\ folio_charges[j].charge_type = "miscellaneous"
  /\ auditLog # <<>> /\ auditLog[1].inserted = 1
  /\ payments # <<>>
  /\ Len(bookings) = 1
  /\ bookings[1].status = "checked_out" /\ bookings[1].room_id = 103
  /\ rooms[101] = "vacant_dirty" /\ rooms[103] = "vacant_dirty"
  /\ Len(guest_documents) = 2

\* C19: every stored folio charge has a non-negative amount, whichever operation posted
\* it and whatever amount the add-charge form was given.
C19_NonNegativeAmounts ==
  \A i \in 1..Len(folio_charges) : folio_charges[i].amount >= 0

\* C20: after every check-in that reports success (Guests.handleCheckin,
\* CheckIn.processCheckIn, CheckIn.processWalkIn) the folio of the new booking holds room
\* charges for every night from the check-in date up to the expected check-out date:
\* room_rent rows amounting to the base rate of the room's type times the nights.
C20_RoomRentPostedAtCheckIn ==
  [][Len(bookings') > Len(bookings) =>
       LET b == Len(bookings')
           nights == bookings'[b].expected_check_out_date - bookings'[b].check_in_date
           posted == SelectSeq(folio_charges', LAMBDA c :
                       c.booking_id = b /\ c.charge_type = "room_rent")
       IN nights > 0 =>
            SumAmounts(posted) = BaseRate(RoomType(bookings'[b].room_id)) * nights]_vars

\* C21: a guest is created at the first encounter of a mobile and reused afterwards: under
\* every interleaving of handleNewReservation, handleCreateReservation and processWalkIn no
\* two guest rows share a mobile, the reservation or booking a handler inserts is attached to
\* the guest row of the mobile it was given, and a handler given a mobile that already has
\* a guest row adds no guest row
C21_GuestPerMobile ==
  [][/\ \A g, h \in 1..Len(guests') : guests'[g].mobile = guests'[h].mobile => g = h
     /\ \A t \in Terminals :
          (pc[t] \in GuestSteps /\ pc'[t] = "idle") =>
             /\ GuestByMobile(loc[t].mobile) # {} => guests' = guests
             /\ Len(reservations') > Len(reservations) =>
                  guests'[reservations'[Len(reservations')].guest_id].mobile = loc[t].mobile
             /\ Len(bookings') > Len(bookings) =>
                  guests'[bookings'[Len(bookings')].guest_id].mobile = loc[t].mobile]_vars

\* a walk-in whose lookup found no guest is about to insert although another handler has
\* created the guest of that mobile meanwhile, and a booking and a reservation share a guest
C21_Witness ==
  /\ \E t \in Terminals : /\ pc[t] = "wi_insert" /\ loc[t].existingGuest = 0
                          /\ GuestByMobile(loc[t].mobile) # {}
  /\ \E r \in 1..Len(reservations), b \in 1..Len(bookings) :
        reservations[r].guest_id = bookings[b].guest_id

\* C22: every check-in from a reservation (CheckIn.processCheckIn, Guests.handleCheckin) that
\* inserts a booking leaves that reservation checked_in, so that it is no pending arrival any
\* more and no second booking can be created from it
C22_CheckInClosesReservation ==
  [][\A t \in Terminals :
       (/\ modal[t] = "checkin" /\ selectedReservation[t] # 0
        /\ modal'[t] = "none" /\ Len(bookings') > Len(bookings))
       => reservations'[selectedReservation[t]].status = "checked_in"]_vars

\* C23: a user with the staff role cannot reach the manager-only pages (Reports, Settings,
\* Night Audit, Rate Calendar), whatever the URL hash is set to
C23_StaffPagesOnly ==
  \A t \in Terminals : Role(t) = "staff" => page[t] \in navigation(t)

\* C24: once a booking is checked_out no folio charge and no payment is inserted for it, be
\* it by an add-charge or an extend-stay of a terminal that selected the booking before the
\* checkout or by a night audit whose list was loaded before it, so that the charges and
\* payments of the archived invoice stay the rows of the store
C24_ClosedFolioFrozen ==
  [][\A b \in BookingIds :
       bookings[b].status = "checked_out" =>
          /\ ChargesOf(folio_charges', b) = ChargesOf(folio_charges, b)
          /\ PaymentsOf(payments', b) = PaymentsOf(payments, b)]_vars

\* C25: when two terminals run the night audit of the same day concurrently, under every
\* interleaving of their existence checks and inserts, a booking never has more than the
\* one room_rent charge of that day (and each qualifying booking ends with exactly one)
C25_OneRoomRentPerDay ==
  \A b \in BookingIds : Len(RoomRentOn(folio_charges, b, today)) <= 1

\* C26: extending a booking whose expected check-out date in the store is D to D2 > D adds
\* exactly one room_rent charge at the base rate for each date in [D, D2) and sets the
\* expected check-out date to D2; a request with D2 <= D adds no charge and leaves the date
\* unchanged; when the date update fails, no charge stays posted for nights outside the stay
C26_ExtendKeepsStayConsistent ==
  [][\A t \in Terminals, D2 \in 1..(MaxDay + 1), f \in 0..(MaxDay + 1) :
       handleExtendStay(t, D2, f) =>
         LET b == selectedBooking[t].id
             D == bookings[b].expected_check_out_date
             added == SubSeq(folio_charges', Len(folio_charges) + 1, Len(folio_charges'))
             rent(d) == Charge(b, d, "room_rent", BaseRate(RoomType(bookings[b].room_id)))
         IN /\ SubSeq(folio_charges', 1, Len(folio_charges)) = folio_charges
            /\ IF D2 > D
               THEN /\ bookings'[b].expected_check_out_date = D2
                    /\ added = [i \in 1..(D2 - D) |-> rent(D + i - 1)]
               ELSE /\ bookings'[b].expected_check_out_date = D
                    /\ added = <<>>
            /\ \A i \in 1..Len(added) :
                  added[i].charge_date < bookings'[b].expected_check_out_date]_vars

\* C28: Guests.handleCheckin for a guest whose identity proof is already stored (the form
\* then has no proof fields) leaves the stored proof of that guest unchanged
C28_ProofOnFileKept ==
  [][\A t \in Terminals, r \in Rooms, d \in 1..(MaxDay + 1), a \in PaymentAmounts,
        f \in 0..(5 + MaxDay) :
       (handleCheckin(t, r, d, a, "ID", f) /\ guests[selectedGuest[t]].id_proof_number # "")
       => guests'[selectedGuest[t]].id_proof_number = guests[selectedGuest[t]].id_proof_number]_vars

\* C27: the reservation statuses cancelled and checked_in are terminal under every
\* interleaving of handleCancelReservation on one terminal and a check-in from the same
\* reservation on another: a cancelled reservation never gets a booking and never becomes
\* checked_in, and a checked_in reservation never becomes cancelled
C27_TerminalStatuses ==
  [][\A r \in 1..Len(reservations) :
       /\ reservations[r].status \in {"cancelled", "checked_in"} =>
             reservations'[r].status = reservations[r].status
       /\ \A t \in Terminals :
             (/\ reservations[r].status = "cancelled"
              /\ modal[t] = "checkin" /\ selectedReservation[t] = r /\ modal'[t] = "none")
             => Len(bookings') = Len(bookings)]_vars

\* C29: handleRoomChange only moves a booking to a room that is vacant_clean in the store at
\* that moment; after it, whether every step succeeded or one failed, the room the booking
\* references is occupied and the room it left is vacant_dirty only if the booking no longer
\* references it; folio charges, payments and the booking's status are unchanged
C29_RoomChangeAtomic ==
  [][\A t \in Terminals, newRoomId \in Rooms, f \in 0..3 :
       handleRoomChange(t, newRoomId, f) =>
         LET b == selectedBooking[t].id
             old == bookings[b].room_id
         IN /\ rooms[newRoomId] = "vacant_clean"
            /\ rooms'[bookings'[b].room_id] = "occupied"
            /\ rooms'[old] = "vacant_dirty" => bookings'[b].room_id # old
            /\ folio_charges' = folio_charges /\ payments' = payments
            /\ bookings'[b].status = bookings[b].status]_vars

\* C30: the invoice shown and printed in the checkout preview agrees with the invoice the
\* same checkout archives: for every folio and every final payment amount the preview's
\* charge list, payment list, total paid and balance are those of the archived invoice's
\* document_data
C30_PreviewIsArchivedInvoice ==
  [][\A t \in Terminals :
       (pc[t] = "co_invoice" /\ Len(guest_documents') > Len(guest_documents)) =>
         LET data == guest_documents'[Len(guest_documents')].document_data
         IN /\ data.charges = loc[t].preview.charges
            /\ data.payments = loc[t].preview.payments
            /\ data.totals.total_paid = loc[t].preview.totalPaid
            /\ data.totals.balance = loc[t].preview.balance]_vars

====
